---- MODULE Spec2Model ----
(***************************************************************************)
(* Jam Merger (src/jam_merger.py): the track list, the toggles, and the    *)
(* merge request driven by MainWindow.process_files and                    *)
(* MainWindow.export_merged_file.                                          *)
(*                                                                         *)
(* Strings are sequences of one-character strings, so that lower(),        *)
(* strip(), "in", endswith() and join() are computed as Python computes    *)
(* them.  None and the empty string are both <<>>: the code only ever      *)
(* tests them for truthiness.                                              *)
(*                                                                         *)
(* process_files runs on the GUI thread.  It is modelled in steps (one per *)
(* decoded track, one per export, one per tag write, one per success       *)
(* report); no user input is taken to be pending while it runs, so the     *)
(* QApplication.processEvents() calls of the decode loops only repaint.    *)
(***************************************************************************)
EXTENDS Integers, Sequences, FiniteSets, TLC

\* The longest track list the user builds.
MaxTracks == 3

\* The longest track list the user builds where the metadata is edited by hand.
MaxEditTracks == 2

\* The longest track list the user builds, drags about and clears.
MaxListTracks == 3

-----------------------------------------------------------------------------
(* Strings *)

Ascii ==
    <<" ", "!", "\"", "#", "$", "%", "&", "'", "(", ")", "*", "+", ",", "-", ".", "/", "0",
    "1", "2", "3", "4", "5", "6", "7", "8", "9", ":", ";", "<", "=", ">", "?", "@", "A", "B",
    "C", "D", "E", "F", "G", "H", "I", "J", "K", "L", "M", "N", "O", "P", "Q", "R", "S", "T",
    "U", "V", "W", "X", "Y", "Z", "[", "\\", "]", "^", "_", "(grave)", "a", "b", "c", "d", "e", "f",
    "g", "h", "i", "j", "k", "l", "m", "n", "o", "p", "q", "r", "s", "t", "u", "v", "w", "x",
    "y", "z", "{", "|", "}", "~">>

\* The place of a character in Ascii (its code point less 31).
OrdTable == [c \in {Ascii[i] : i \in 1..Len(Ascii)} |-> CHOOSE i \in 1..Len(Ascii) : Ascii[i] = c]

Ord(c) == OrdTable[c]

IsUpper(c) == Ord(c) >= Ord("A") /\ Ord(c) <= Ord("Z")

IsDigit(c) == Ord(c) >= Ord("0") /\ Ord(c) <= Ord("9")

\* str.lower()
Lower(s) ==
    [i \in 1..Len(s) |->
        IF IsUpper(s[i]) THEN Ascii[Ord(s[i]) + (Ord("a") - Ord("A"))] ELSE s[i]]

\* str.strip()
Strip(s) ==
    LET keep == {i \in 1..Len(s) : s[i] # " "}
        lo == CHOOSE i \in keep : \A j \in keep : i <= j
        hi == CHOOSE i \in keep : \A j \in keep : i >= j
    IN  IF keep = {} THEN <<>> ELSE SubSeq(s, lo, hi)

\* sub in s
Contains(s, sub) ==
    \E i \in 1..(Len(s) - Len(sub) + 1) : SubSeq(s, i, i + Len(sub) - 1) = sub

\* s.endswith(suffix)
EndsWith(s, suffix) ==
    /\ Len(s) >= Len(suffix)
    /\ SubSeq(s, Len(s) - Len(suffix) + 1, Len(s)) = suffix

\* sep.join(parts)
RECURSIVE Join(_, _)
Join(parts, sep) ==
    IF parts = <<>> THEN <<>>
    ELSE IF Len(parts) = 1 THEN parts[1]
    ELSE parts[1] \o sep \o Join(Tail(parts), sep)

\* a <= b in Python's string order (by code point, a prefix first)
RECURSIVE StrLeq(_, _)
StrLeq(a, b) ==
    IF a = <<>> THEN TRUE
    ELSE IF b = <<>> THEN FALSE
    ELSE IF a[1] # b[1] THEN Ord(a[1]) < Ord(b[1])
    ELSE StrLeq(Tail(a), Tail(b))

\* int(s) of a string of digits
RECURSIVE ToInt(_)
ToInt(s) ==
    IF s = <<>> THEN 0
    ELSE 10 * ToInt(SubSeq(s, 1, Len(s) - 1)) + (Ord(s[Len(s)]) - Ord("0"))

\* the group of re.match(r"^(\d+)", s), <<>> when there is no match
LeadingDigits(s) ==
    LET n == CHOOSE k \in 0..Len(s) :
                /\ \A i \in 1..k : IsDigit(s[i])
                /\ (k < Len(s) => ~IsDigit(s[k + 1]))
    IN  SubSeq(s, 1, n)

\* os.path.splitext(s)[1]
SplitExt(s) ==
    LET dots == {i \in 1..Len(s) : s[i] = "." /\ \E j \in 1..(i - 1) : s[j] # "."}
        last == CHOOSE i \in dots : \A j \in dots : i >= j
    IN  IF dots = {} THEN <<>> ELSE SubSeq(s, last, Len(s))

s_drums == <<"d", "r", "u", "m", "s">>
s_space == <<"s", "p", "a", "c", "e">>
s_rhythm_devils == <<"r", "h", "y", "t", "h", "m", " ", "d", "e", "v", "i", "l", "s">>
s_grateful_dead == <<"g", "r", "a", "t", "e", "f", "u", "l", " ", "d", "e", "a", "d">>
s_Grateful_Dead == <<"G", "r", "a", "t", "e", "f", "u", "l", " ", "D", "e", "a", "d">>
s_Rock == <<"R", "o", "c", "k">>
s_Unknown_Artist == <<"U", "n", "k", "n", "o", "w", "n", " ", "A", "r", "t", "i", "s", "t">>
s_Unknown_Album == <<"U", "n", "k", "n", "o", "w", "n", " ", "A", "l", "b", "u", "m">>
s_Unknown_Year == <<"U", "n", "k", "n", "o", "w", "n", " ", "Y", "e", "a", "r">>
s_Unknown_Genre == <<"U", "n", "k", "n", "o", "w", "n", " ", "G", "e", "n", "r", "e">>
s_Unknown_Album_Artist ==
    <<"U", "n", "k", "n", "o", "w", "n", " ", "A", "l", "b", "u", "m", " ",
      "A", "r", "t", "i", "s", "t">>
s_flac == <<".", "f", "l", "a", "c">>
s_mp3 == <<".", "m", "p", "3">>
s_wav == <<".", "w", "a", "v">>
s_ape == <<".", "a", "p", "e">>

-----------------------------------------------------------------------------
(* Titles: normalize_title and extract_song_title *)

\* s.replace(old, new): the occurrences of old from the left, none overlapping
RECURSIVE Replace(_, _, _)
Replace(s, old, new) ==
    IF Len(s) < Len(old) THEN s
    ELSE IF SubSeq(s, 1, Len(old)) = old
    THEN new \o Replace(SubSeq(s, Len(old) + 1, Len(s)), old, new)
    ELSE <<s[1]>> \o Replace(Tail(s), old, new)

\* \w of re, among the printable ASCII characters
IsWordChar(c) ==
    \/ IsDigit(c)
    \/ IsUpper(c)
    \/ Ord(c) >= Ord("a") /\ Ord(c) <= Ord("z")
    \/ c = "_"

s_feeling == <<"f", "e", "e", "l", "i", "n", "g">>
s_feelin == <<"f", "e", "e", "l", "i", "n">>
s_feelin_apostrophe == <<"f", "e", "e", "l", "i", "n", "'">>

\* Lines 393-399
normalize_title(title) ==
    LET lowered == Lower(title)
        feeling == Replace(lowered, s_feeling, s_feelin_apostrophe)
        feelin == Replace(feeling, s_feelin, s_feelin_apostrophe)
        words == SelectSeq(feelin, LAMBDA c : IsWordChar(c) \/ c = " ")
    IN  SelectSeq(words, LAMBDA c : c # " ")

\* re.sub(r"^(?:\d+-)?\d+\s*", "", raw_title): what is left of raw_title
StripTrackPrefix(raw_title) ==
    LET first == Len(LeadingDigits(raw_title))
        rest == SubSeq(raw_title, first + 2, Len(raw_title))
        second == Len(LeadingDigits(rest))
        grouped == /\ first > 0
                   /\ first < Len(raw_title)
                   /\ raw_title[first + 1] = "-"
                   /\ second > 0
        digits == IF grouped THEN first + 1 + second ELSE first
        after == SubSeq(raw_title, digits + 1, Len(raw_title))
        spaces == CHOOSE k \in 0..Len(after) :
                    /\ \A i \in 1..k : after[i] = " "
                    /\ (k < Len(after) => after[k + 1] # " ")
    IN  IF first = 0 THEN raw_title ELSE SubSeq(after, spaces + 1, Len(after))

\* Lines 402-403: the pre-cleaned title
Cleaned(raw_title) ==
    Strip(Replace(Replace(StripTrackPrefix(raw_title), <<"_">>, <<" ">>), <<"-">>, <<" ">>))

\* difflib's SequenceMatcher.find_longest_match without junk: the longest
\* block a[i..i+k-1] = b[j..j+k-1] in the two ranges, the one that starts
\* earliest in a and, of those, earliest in b, as <<i, j, k>>; k = 0 for none.
find_longest_match(a, alo, ahi, b, blo, bhi) ==
    LET Same(i, j, k) ==
            /\ i + k - 1 <= ahi
            /\ j + k - 1 <= bhi
            /\ SubSeq(a, i, i + k - 1) = SubSeq(b, j, j + k - 1)
        sizes == {k \in 1..(ahi - alo + 1) : \E i \in alo..ahi, j \in blo..bhi : Same(i, j, k)}
        size == CHOOSE k \in sizes : \A o \in sizes : k >= o
        starts == {i \in alo..ahi : \E j \in blo..bhi : Same(i, j, size)}
        besti == CHOOSE i \in starts : \A o \in starts : i <= o
        ends == {j \in blo..bhi : Same(besti, j, size)}
        bestj == CHOOSE j \in ends : \A o \in ends : j <= o
    IN  IF sizes = {} THEN <<alo, blo, 0>> ELSE <<besti, bestj, size>>

\* The characters in the matching blocks get_matching_blocks finds in the
\* two ranges: the longest block, then those to its left and to its right.
RECURSIVE Matches(_, _, _, _, _, _)
Matches(a, alo, ahi, b, blo, bhi) ==
    IF alo > ahi \/ blo > bhi THEN 0
    ELSE LET block == find_longest_match(a, alo, ahi, b, blo, bhi)
             i == block[1]
             j == block[2]
             k == block[3]
         IN  IF k = 0 THEN 0
             ELSE Matches(a, alo, i - 1, b, blo, j - 1) + k
                    + Matches(a, i + k, ahi, b, j + k, bhi)

\* SequenceMatcher.ratio() of a candidate and the word, as <<2 * M, T>>
Ratio(candidate, word) ==
    <<2 * Matches(candidate, 1, Len(candidate), word, 1, Len(word)),
      Len(candidate) + Len(word)>>

\* ratio() >= 0.6; two empty sequences have the ratio 1.0
AtCutoff(r) == r[2] = 0 \/ 10 * r[1] >= 6 * r[2]

\* Python's order on the (score, x) pairs get_close_matches keeps
ScoredLeq(r1, x1, r2, x2) ==
    \/ r1[1] * r2[2] < r2[1] * r1[2]
    \/ r1[1] * r2[2] = r2[1] * r1[2] /\ StrLeq(x1, x2)

\* difflib.get_close_matches(word, possibilities, n=1, cutoff=0.6): the set of
\* its results, empty or one key
get_close_matches(word, possibilities) ==
    LET close == {x \in possibilities : AtCutoff(Ratio(x, word))}
    IN  {x \in close : \A y \in close : ScoredLeq(Ratio(y, word), y, Ratio(x, word), x)}

\* {self.normalize_title(song): song for song in self.song_list}: its keys
NormKeys(song_list) == {normalize_title(song_list[i]) : i \in 1..Len(song_list)}

\* norm_song_map[key]: a later song of the list replaces an earlier one
NormSong(song_list, key) ==
    LET at == {i \in 1..Len(song_list) : normalize_title(song_list[i]) = key}
    IN  song_list[CHOOSE i \in at : \A j \in at : i >= j]

\* The pairs of shortname_map whose normalized full title is the key.
ShortAt(shortname_map, key) ==
    {i \in 1..Len(shortname_map) : normalize_title(shortname_map[i][1]) = key}

\* ShortOrFull with shortnames_enabled not looked at.
ShortWhenever(full_title, shortname_map, shortnames_enabled) ==
    LET at == ShortAt(shortname_map, normalize_title(full_title))
    IN  IF at # {}
        THEN shortname_map[CHOOSE i \in at : \A j \in at : i >= j][2]
        ELSE full_title

\* Lines 408-413 and 419-424: the short name of a matched title, or the title
ShortOrFull(full_title, shortname_map, shortnames_enabled) ==
    LET at == ShortAt(shortname_map, normalize_title(full_title))
    IN  IF shortnames_enabled /\ at # {}
        THEN shortname_map[CHOOSE i \in at : \A j \in at : i >= j][2]
        ELSE full_title

\* extract_song_title with the normalized title returned when nothing matches.
extract_song_title_normalized(raw_title, song_list, shortname_map, shortnames_enabled) ==
    LET cleaned_norm == normalize_title(Cleaned(raw_title))
        keys == NormKeys(song_list)
        matches == get_close_matches(cleaned_norm, keys)
    IN  IF cleaned_norm \in keys
        THEN ShortOrFull(NormSong(song_list, cleaned_norm), shortname_map, shortnames_enabled)
        ELSE IF matches # {}
        THEN ShortOrFull(NormSong(song_list, CHOOSE x \in matches : TRUE),
                         shortname_map, shortnames_enabled)
        ELSE cleaned_norm

\* extract_song_title, self.song_list, self.shortname_map and
\* self.shortnames_enabled given; shortname_map is the sequence of its
\* (full, short) items.
extract_song_title(raw_title, song_list, shortname_map, shortnames_enabled) ==
    LET cleaned == Cleaned(raw_title)
        cleaned_norm == normalize_title(cleaned)
        keys == NormKeys(song_list)
        matches == get_close_matches(cleaned_norm, keys)
    IN  IF cleaned_norm \in keys
        THEN ShortOrFull(NormSong(song_list, cleaned_norm), shortname_map, shortnames_enabled)
        ELSE IF matches # {}
        THEN ShortOrFull(NormSong(song_list, CHOOSE x \in matches : TRUE),
                         shortname_map, shortnames_enabled)
        ELSE cleaned

\* The catalog load_song_list returns: the lines of songs.txt, longest first.
SongList ==
    <<<<"F", "i", "r", "e", " ", "o", "n", " ", "t", "h", "e", " ", "M", "o", "u", "n", "t", "a", "i", "n">>,
      <<"S", "c", "a", "r", "l", "e", "t", " ", "B", "e", "g", "o", "n", "i", "a", "s">>,
      <<"S", "p", "a", "c", "e">>>>

\* The items of the dictionary load_shortname_map returns of shortnames.txt.
ShortnameMap ==
    <<<<<<"s", "c", "a", "r", "l", "e", "t", " ", "b", "e", "g", "o", "n", "i", "a", "s">>,
        <<"S", "c", "a", "r", "l", "e", "t">>>>,
      <<<<"f", "i", "r", "e", " ", "o", "n", " ", "t", "h", "e", " ", "m", "o", "u", "n", "t", "a", "i", "n">>,
        <<"F", "i", "r", "e">>>>>>

-----------------------------------------------------------------------------
(* The audio files the user can add.  Each is what the program reads of    *)
(* it: where it is (root/parent/base), its tags, whether it embeds         *)
(* artwork, and the day it was last modified.  Tags are read of .flac and  *)
(* .mp3 files only.  A file's name stands for its path in full_paths.      *)

File ==
    [jam |->
        [root |-> <<"/", "m", "u", "s", "i", "c">>,
         parent |-> <<"1", "9", "7", "7", "-", "0", "5", "-", "0", "8">>,
         base |-> <<"1", " ", "J", "a", "m", ".", "f", "l", "a", "c">>,
         tracknumber |-> <<>>,
         artist |-> s_Grateful_Dead,
         album |-> <<"C", "o", "r", "n", "e", "l", "l">>,
         genre |-> <<"F", "o", "l", "k">>,
         albumartist |-> <<>>,
         date |-> <<"1", "9", "7", "7">>,
         artwork |-> TRUE,
         mtime |-> <<"2", "0", "2", "4", "-", "0", "1", "-", "0", "1">>],
     drums |->
        [root |-> <<"/", "m", "u", "s", "i", "c">>,
         parent |-> <<"g", "d">>,
         base |-> <<"2", " ", "D", "r", "u", "m", "s", ".", "m", "p", "3">>,
         tracknumber |-> <<"2", "/", "9">>,
         artist |-> <<"P", "h", "i", "s", "h">>,
         album |-> <<>>,
         genre |-> <<"J", "a", "z", "z">>,
         albumartist |-> <<"P", "h", "i", "s", "h">>,
         date |-> <<"1", "9", "9", "0", "-", "0", "3", "-", "2", "9">>,
         artwork |-> FALSE,
         mtime |-> <<"2", "0", "2", "4", "-", "0", "1", "-", "0", "1">>],
     space |->
        [root |-> <<"/", "m", "u", "s", "i", "c">>,
         parent |-> <<"1", "9", "7", "7", "-", "0", "5", "-", "0", "8">>,
         base |-> <<"3", " ", "s", "p", "a", "c", "e", ".", "w", "a", "v">>,
         tracknumber |-> <<>>,
         artist |-> <<>>,
         album |-> <<>>,
         genre |-> <<>>,
         albumartist |-> <<>>,
         date |-> <<>>,
         artwork |-> FALSE,
         mtime |-> <<"2", "0", "2", "4", "-", "0", "1", "-", "0", "1">>],
     fire |->
        [root |-> <<"/", "m", "u", "s", "i", "c">>,
         parent |-> <<"g", "d">>,
         base |-> <<"F", "i", "r", "e", ".", "a", "p", "e">>,
         tracknumber |-> <<>>,
         artist |-> <<>>,
         album |-> <<>>,
         genre |-> <<>>,
         albumartist |-> <<>>,
         date |-> <<>>,
         artwork |-> FALSE,
         mtime |-> <<"1", "9", "9", "0", "-", "0", "3", "-", "2", "9">>],
     scarlet |->
        [root |-> <<"/", "m", "u", "s", "i", "c">>,
         parent |-> <<"g", "d">>,
         base |-> <<"0", "4", " ", "S", "c", "a", "r", "l", "e", "t", " ", "B", "e", "g", "o", "n", "i", "a", "s", ".", "f", "l", "a", "c">>,
         tracknumber |-> <<"4">>,
         artist |-> <<"P", "h", "i", "s", "h">>,
         album |-> <<>>,
         genre |-> <<>>,
         albumartist |-> <<>>,
         date |-> <<>>,
         artwork |-> TRUE,
         mtime |-> <<"2", "0", "2", "4", "-", "0", "1", "-", "0", "1">>],
     jam_backup |->
        [root |-> <<"/", "b", "a", "c", "k", "u", "p">>,
         parent |-> <<"1", "9", "7", "7", "-", "0", "5", "-", "0", "8">>,
         base |-> <<"1", " ", "J", "a", "m", ".", "f", "l", "a", "c">>,
         tracknumber |-> <<>>,
         artist |-> <<>>,
         album |-> <<>>,
         genre |-> <<>>,
         albumartist |-> <<>>,
         date |-> <<>>,
         artwork |-> FALSE,
         mtime |-> <<"2", "0", "2", "4", "-", "0", "1", "-", "0", "1">>],
     drums_d |->
        [root |-> <<"/", "m", "u", "s", "i", "c">>,
         parent |-> <<"d">>,
         base |-> <<"2", " ", "D", "r", "u", "m", "s", ".", "m", "p", "3">>,
         tracknumber |-> <<"2">>,
         artist |-> <<>>,
         album |-> <<>>,
         genre |-> <<>>,
         albumartist |-> <<>>,
         date |-> <<>>,
         artwork |-> FALSE,
         mtime |-> <<"2", "0", "2", "4", "-", "0", "1", "-", "0", "1">>]]

FileIds == DOMAIN File

\* file_path.lower().endswith('.flac') / '.mp3'
IsFlac(f) == EndsWith(Lower(File[f].base), s_flac)

IsMp3(f) == EndsWith(Lower(File[f].base), s_mp3)

\* The value of a tag as the readers of the program get it, <<>> when absent.
Tag(f, key) == IF IsFlac(f) \/ IsMp3(f) THEN File[f][key] ELSE <<>>

-----------------------------------------------------------------------------
(* Helpers of MainWindow that read the track list *)

\* Sequences as Python lists
Range(s) == {s[i] : i \in 1..Len(s)}

\* track_nums == sorted(track_nums)
IsSortedNumbers(s) == \A i \in 1..(Len(s) - 1) : s[i] <= s[i + 1]

\* file_names == sorted(file_names)
IsSortedNames(s) == \A i \in 1..(Len(s) - 1) : StrLeq(s[i], s[i + 1])

\* str.isdigit()
IsDigitStr(s) == s # <<>> /\ \A i \in 1..Len(s) : IsDigit(s[i])

\* s.split('/')[0]
BeforeSlash(s) ==
    LET at == {i \in 1..Len(s) : s[i] = "/"}
        first == CHOOSE i \in at : \A j \in at : i <= j
    IN  IF at = {} THEN s ELSE SubSeq(s, 1, first - 1)

\* The path of a file.
PathOf(f) == File[f].root \o <<"/">> \o File[f].parent \o <<"/">> \o File[f].base

\* os.path.basename
Basename(path) ==
    LET at == {i \in 1..Len(path) : path[i] = "/"}
        last == CHOOSE i \in at : \A j \in at : i >= j
    IN  IF at = {} THEN path ELSE SubSeq(path, last + 1, Len(path))

\* os.path.dirname
Dirname(path) ==
    LET at == {i \in 1..Len(path) : path[i] = "/"}
        last == CHOOSE i \in at : \A j \in at : i >= j
        head == SubSeq(path, 1, last)
        kept == {i \in 1..Len(head) : head[i] # "/"}
    IN  IF at = {} THEN <<>>
        ELSE IF kept = {} THEN head
        ELSE SubSeq(head, 1, CHOOSE i \in kept : \A j \in kept : i >= j)

extract_parent_and_file(file_path) ==
    [parent_dir |-> Basename(Dirname(file_path)), file_name |-> Basename(file_path)]

\* f"{parent_dir}/{file_name}", the text of a path's list item
ItemText(file_path) ==
    extract_parent_and_file(file_path).parent_dir
        \o <<"/">> \o extract_parent_and_file(file_path).file_name

\* name.rsplit(".", 1)[0]
BeforeLastDot(name) ==
    LET at == {i \in 1..Len(name) : name[i] = "."}
        last == CHOOSE i \in at : \A j \in at : i >= j
    IN  IF at = {} THEN name ELSE SubSeq(name, 1, last - 1)

\* The track number is_track_order_suspicious parses for one file, -1 for None.
TrackNumber(f) ==
    LET tagged == IF IsFlac(f) THEN Tag(f, "tracknumber")
                  ELSE IF IsMp3(f) THEN BeforeSlash(Tag(f, "tracknumber"))
                  ELSE <<>>
        num == IF tagged # <<>> THEN tagged ELSE LeadingDigits(File[f].base)
    IN  IF IsDigitStr(num) THEN ToInt(num) ELSE -1

\* [-_\.]
IsDateSep(c) == c \in {"-", "_", "."}

\* Whether (\d{4})[-_\.](\d{2})[-_\.](\d{2}) matches s from place i on.
DateAt(s, i) ==
    /\ i + 9 <= Len(s)
    /\ \A k \in {0, 1, 2, 3, 5, 6, 8, 9} : IsDigit(s[i + k])
    /\ IsDateSep(s[i + 4])
    /\ IsDateSep(s[i + 7])

\* The groups of a match at place i, as f"{y}-{m}-{d}".
DateFrom(s, i) ==
    SubSeq(s, i, i + 3) \o <<"-">> \o SubSeq(s, i + 5, i + 6) \o <<"-">>
        \o SubSeq(s, i + 8, i + 9)

\* extract_date_from_string: re.search finds the leftmost match; <<>> for None.
extract_date_from_string(s) ==
    LET at == {i \in 1..Len(s) : DateAt(s, i)}
        first == CHOOSE i \in at : \A j \in at : i <= j
    IN  IF at = {} THEN <<>> ELSE DateFrom(s, first)

\* Lines 604-611: re.match(r'(\d{4})(?:[-_\.](\d{2})[-_\.](\d{2}))?', metadata_year),
\* the month and the day '01' when their group did not match; <<>> for no match.
TagDate(metadata_year) ==
    IF Len(metadata_year) >= 4 /\ \A k \in 1..4 : IsDigit(metadata_year[k])
    THEN IF DateAt(metadata_year, 1) THEN DateFrom(metadata_year, 1)
         ELSE SubSeq(metadata_year, 1, 4) \o <<"-", "0", "1", "-", "0", "1">>
    ELSE <<>>

\* The date tag extract_date_for_filename reads: of .flac and .mp3 files only.
MetadataYear(first_file_name, date_tag) ==
    IF EndsWith(Lower(first_file_name), s_flac) \/ EndsWith(Lower(first_file_name), s_mp3)
    THEN date_tag ELSE <<>>

\* DateFor with the file name looked at before the parent directory.
DateForNameFirst(parent_dir, first_file_name, date_tag, mod_time) ==
    LET metadata_year == MetadataYear(first_file_name, date_tag)
        of_name == extract_date_from_string(first_file_name)
        of_dir == IF of_name # <<>> THEN of_name
                  ELSE extract_date_from_string(parent_dir)
        of_tag == IF of_dir # <<>> THEN of_dir
                  ELSE IF metadata_year # <<>> THEN TagDate(metadata_year)
                  ELSE <<>>
    IN  IF of_tag # <<>> THEN of_tag ELSE mod_time

\* The date a file under a parent directory resolves to, its date tag and
\* its modification day given (lines 589-617).
DateFor(parent_dir, first_file_name, date_tag, mod_time) ==
    LET metadata_year == MetadataYear(first_file_name, date_tag)
        of_dir == extract_date_from_string(parent_dir)
        of_name == IF of_dir # <<>> THEN of_dir
                   ELSE extract_date_from_string(first_file_name)
        of_tag == IF of_name # <<>> THEN of_name
                  ELSE IF metadata_year # <<>> THEN TagDate(metadata_year)
                  ELSE <<>>
    IN  IF of_tag # <<>> THEN of_tag ELSE mod_time

\* What the program finds of each file, found once.
Facts ==
    [f \in FileIds |->
        [track_number |-> TrackNumber(f),
         has_artwork |-> (IsMp3(f) \/ IsFlac(f)) /\ File[f].artwork,
         extension |-> Lower(SplitExt(File[f].base)),
         date_str |-> DateFor(File[f].parent, File[f].base, File[f].date, File[f].mtime)]]

\* What the window has found once, when it was made (see Memo).
VARIABLE memo

\* is_track_order_suspicious with the track numbers alone looked at.
is_track_order_suspicious_by_numbers(paths) ==
    LET track_numbers == [i \in 1..Len(paths) |-> memo.facts[paths[i]].track_number]
        track_nums == SelectSeq(track_numbers, LAMBDA n : n # -1)
    IN  Len(track_nums) >= 2 /\ ~IsSortedNumbers(track_nums)

is_track_order_suspicious(paths) ==
    LET track_numbers == [i \in 1..Len(paths) |-> memo.facts[paths[i]].track_number]
        track_nums == SelectSeq(track_numbers, LAMBDA n : n # -1)
        file_names == [i \in 1..Len(paths) |-> File[paths[i]].base]
    IN  \/ Len(track_nums) >= 2 /\ ~IsSortedNumbers(track_nums)
        \/ Len(paths) >= 2 /\ ~IsSortedNames(file_names)

any_file_has_artwork(paths) == \E i \in 1..Len(paths) : memo.facts[paths[i]].has_artwork

\* The texts a list item can have.
ItemTexts == {ItemText(PathOf(f)) : f \in FileIds}

special_names == <<s_drums, s_space, s_rhythm_devils>>

\* any(s in t.lower() for s in special_names)
IsSpecial(t) == \E i \in 1..Len(special_names) : Contains(Lower(t), special_names[i])

\* The file names extract_song_title is called with: those of the list items
\* (item_text.split("/")[-1].rsplit(".", 1)[0]), which are those of the paths
\* (os.path.basename(file_path).rsplit(".", 1)[0]).
FileNames == {BeforeLastDot(Basename(ItemText(PathOf(f)))) : f \in FileIds}

\* extract_song_title of every file name, with shortnames_enabled off and on.
TitleTable ==
    {[file_name |-> file_name, shortnames |-> shortnames,
      title |-> extract_song_title(file_name, SongList, ShortnameMap, shortnames)] :
        file_name \in FileNames, shortnames \in BOOLEAN}

\* The titles of the table by file name; the titles among them that hold a
\* marker; the Facts of every file; the text of every path's list item, and
\* the paths every item text is found in (item_text in full_path).  These are
\* functions of the files
\* and of the catalog alone: the window finds them once, when it is made, and
\* keeps them in memo.
Memo(table) ==
    [titles |->
        [file_name \in FileNames |->
            [shortnames \in BOOLEAN |->
                (CHOOSE r \in table :
                    r.file_name = file_name /\ r.shortnames = shortnames).title]],
     special_titles |-> {r.title : r \in {e \in table : IsSpecial(e.title)}},
     facts |-> Facts,
     item_text |-> [f \in FileIds |-> ItemText(PathOf(f))],
     paths_with |->
        [item_text \in {ItemText(PathOf(f)) : f \in FileIds} |->
            {f \in FileIds : Contains(PathOf(f), item_text)}]]

\* The display titles of the list: extract_song_title of each item's file name.
get_titles(item_texts, shortnames) ==
    [i \in 1..Len(item_texts) |->
        memo.titles[BeforeLastDot(Basename(item_texts[i]))][shortnames]]

extract_date_for_filename(first_file) == memo.facts[first_file].date_str

get_auto_proposed_filename(item_texts, paths, shortnames) ==
    Join(get_titles(item_texts, shortnames), <<" ", "-", " ">>)
        \o (IF paths # <<>>
            THEN <<" ", "(">> \o extract_date_for_filename(paths[1]) \o <<")">>
            ELSE <<>>)

\* artist.strip().lower() == "grateful dead"
IsGratefulDead(artist) == Lower(Strip(artist)) = s_grateful_dead

\* The metadata fields update_combined_metadata computes from the list.
CombinedMetadata(paths, shortnames) ==
    LET artist == IF paths = <<>> THEN <<>> ELSE Tag(paths[1], "artist")
        album == IF paths = <<>> THEN <<>> ELSE Tag(paths[1], "album")
        year == IF paths = <<>> THEN <<>> ELSE Tag(paths[1], "date")
        genre == IF paths = <<>> THEN <<>> ELSE Tag(paths[1], "genre")
        album_artist == IF paths = <<>> THEN <<>> ELSE Tag(paths[1], "albumartist")
        combined_titles == [i \in 1..Len(paths) |->
                              memo.titles[BeforeLastDot(Basename(PathOf(paths[i])))][shortnames]]
        gd == artist # <<>> /\ IsGratefulDead(artist)
        genre2 == IF gd THEN s_Rock ELSE genre
        album_artist2 == IF gd THEN s_Grateful_Dead ELSE album_artist
    IN  [title_edit |-> Join(combined_titles, <<" ", ">", " ">>),
         artist_edit |-> IF artist # <<>> THEN artist ELSE s_Unknown_Artist,
         album_edit |-> IF album # <<>> THEN album ELSE s_Unknown_Album,
         year_edit |-> IF year # <<>> THEN year ELSE s_Unknown_Year,
         genre_edit |-> IF genre2 # <<>> THEN genre2 ELSE s_Unknown_Genre,
         album_artist_edit |->
            IF album_artist2 # <<>> THEN album_artist2 ELSE s_Unknown_Album_Artist]

\* The picture update_album_art finds in the list: an .mp3 with a picture is
\* taken and the search goes on, a .flac with a picture is taken and ends it.
\* "None" when there is none; otherwise the file the picture is of.
ListArtwork(paths) ==
    LET flacs == {i \in 1..Len(paths) : IsFlac(paths[i]) /\ File[paths[i]].artwork}
        flac == CHOOSE i \in flacs : \A j \in flacs : i <= j
        mp3s == {i \in 1..Len(paths) : IsMp3(paths[i]) /\ File[paths[i]].artwork}
        mp3 == CHOOSE i \in mp3s : \A j \in mp3s : i >= j
    IN  IF flacs # {} THEN paths[flac]
        ELSE IF mp3s # {} THEN paths[mp3]
        ELSE "None"

-----------------------------------------------------------------------------
(* State *)

VARIABLES
    items,                    \* the texts of the list widget's items, in order
    full_paths,               \* list_widget.full_paths
    shortnames_enabled,
    artwork_data,             \* "None", the file the picture is of, or "custom"
    last_op,                  \* the last operation on the list, for the record
    omit_special_checkbox,
    fade_last_checkbox,
    fade_last_spinbox,        \* seconds
    show_progress_action,
    convert_checkbox,
    convert_format_combo,
    edit_metadata_enabled,
    save_directory,           \* settings "last_save_directory", <<>> when unset
    fields,                   \* the metadata line edits and the file name preview
    progress_bar,
    pc,                       \* where process_files is; "idle" between requests
    frame,                    \* the locals of process_files
    written,                  \* output path -> the file this request left there
    log,                      \* what this request has done so far, in order
    call                      \* a function of the program called on its own

ui == <<items, full_paths, shortnames_enabled, artwork_data, last_op,
        omit_special_checkbox, fade_last_checkbox, fade_last_spinbox, show_progress_action, convert_checkbox, convert_format_combo,
        edit_metadata_enabled, save_directory, fields>>

request == <<pc, frame, written, log>>

vars == <<ui, progress_bar, request, call, memo>>

\* No function is called on its own.
NoCall == [fn |-> "none"]

\* The seconds the user sets the fade spin box to (its range is 0..30).
FadeSeconds == {0, 2}

ConvertFormats == <<"FLAC", "WAV", "MP3 320", "MP3 256", "MP3 128">>

\* The directory the user picks to save to.
SaveDir == <<"/", "o", "u", "t">>

NoFile == [x \in {} |-> 0]

NoTags == [x \in {} |-> <<>>]

NoFrame ==
    [sub |-> "none", idx |-> 0, merged_audio |-> <<>>, paths |-> <<>>,
     before_paths |-> <<>>, after_paths |-> <<>>,
     before_titles |-> <<>>, after_titles |-> <<>>,
     proposed_file_name |-> <<>>, file_extension |-> <<>>, output_format |-> <<>>,
     bitrate |-> "None", date_str |-> <<>>, fade_duration |-> 0, output_path |-> <<>>]

\* update_file_name_preview and update_combined_metadata with every edit mode
\* check left out.
RefreshedAlways(item_texts, paths, shortnames, editing) ==
    [file_name_preview_edit |-> get_auto_proposed_filename(item_texts, paths, shortnames)]
        @@ CombinedMetadata(paths, shortnames)

\* update_file_name_preview and update_combined_metadata: no-ops in edit mode.
Refreshed(item_texts, paths, shortnames, editing) ==
    IF editing THEN fields
    ELSE [file_name_preview_edit |-> get_auto_proposed_filename(item_texts, paths, shortnames)]
            @@ CombinedMetadata(paths, shortnames)

\* update_album_art at the end of update_combined_metadata.
RefreshedArtwork(paths, editing) ==
    IF editing THEN artwork_data ELSE ListArtwork(paths)

\* The window after MainWindow.__init__.
InitWindow ==
    /\ \E table \in {TitleTable} : memo = Memo(table)
    /\ items = <<>>
    /\ full_paths = <<>>
    /\ shortnames_enabled = FALSE
    /\ artwork_data = "None"
    /\ last_op = "none"
    /\ omit_special_checkbox = FALSE
    /\ fade_last_checkbox = FALSE
    /\ fade_last_spinbox = 2
    /\ show_progress_action = TRUE
    /\ convert_checkbox = FALSE
    /\ convert_format_combo = ConvertFormats[1]
    /\ edit_metadata_enabled = FALSE
    /\ save_directory = <<>>
    /\ fields = [file_name_preview_edit |-> <<>>] @@ CombinedMetadata(<<>>, FALSE)
    /\ progress_bar = [value |-> 0, maximum |-> 100, visible |-> TRUE]
    /\ pc = "idle"
    /\ frame = NoFrame
    /\ written = NoFile
    /\ log = <<>>

Init == InitWindow /\ call = NoCall

-----------------------------------------------------------------------------
(* The user's operations between requests *)

\* open_file_dialog, or a drop of files on the list, one accepted file at a time
AddFile(f, most) ==
    /\ pc = "idle"
    /\ last_op' = "add"
    /\ Len(full_paths) < most
    /\ items' = Append(items, memo.item_text[f])
    /\ full_paths' = Append(full_paths, f)
    /\ fields' = Refreshed(items', full_paths', shortnames_enabled, edit_metadata_enabled)
    /\ artwork_data' = RefreshedArtwork(full_paths', edit_metadata_enabled)
    /\ UNCHANGED <<shortnames_enabled, omit_special_checkbox,
                   fade_last_checkbox, fade_last_spinbox,
                   show_progress_action, convert_checkbox,
                   convert_format_combo, edit_metadata_enabled,
                   save_directory, progress_bar, request, call, memo>>

\* The list with the item at one place moved to another: what the list
\* widget's own dropEvent does of an internal move.
MoveItem(list, from, to) ==
    LET without == [i \in 1..(Len(list) - 1) |-> IF i < from THEN list[i] ELSE list[i + 1]]
    IN  [i \in 1..Len(list) |->
            IF i < to THEN without[i]
            ELSE IF i = to THEN list[from]
            ELSE without[i - 1]]

\* update_full_paths_order, lines 87-93: for each item, in order, the first
\* path of full_paths its text is found in; none when it is found in none.
Reordered(item_texts, paths) ==
    LET found == [i \in 1..Len(item_texts) |->
                    {k \in 1..Len(paths) : paths[k] \in memo.paths_with[item_texts[i]]}]
        kept == SelectSeq([i \in 1..Len(item_texts) |-> i], LAMBDA i : found[i] # {})
    IN  [n \in 1..Len(kept) |->
            paths[CHOOSE k \in found[kept[n]] : \A l \in found[kept[n]] : k <= l]]

\* dropEvent of a drag inside the list: the item is moved, then
\* update_full_paths_order.
DropInternal(from, to) ==
    /\ pc = "idle"
    /\ last_op' = "drop"
    /\ from \in 1..Len(items)
    /\ to \in 1..Len(items)
    /\ from # to
    /\ items' = MoveItem(items, from, to)
    /\ full_paths' = Reordered(items', full_paths)
    /\ fields' = Refreshed(items', full_paths', shortnames_enabled, edit_metadata_enabled)
    /\ artwork_data' = RefreshedArtwork(full_paths', edit_metadata_enabled)
    /\ UNCHANGED <<shortnames_enabled, omit_special_checkbox,
                   fade_last_checkbox, fade_last_spinbox,
                   show_progress_action, convert_checkbox,
                   convert_format_combo, edit_metadata_enabled,
                   save_directory, progress_bar, request, call, memo>>

\* clear_files with the fade box left as it is.
clear_files_keeping_fade ==
    /\ pc = "idle"
    /\ last_op' = "clear"
    /\ items' = <<>>
    /\ full_paths' = <<>>
    /\ edit_metadata_enabled' = FALSE
    /\ omit_special_checkbox' = FALSE
    /\ fields' = [file_name_preview_edit |-> <<>>] @@ CombinedMetadata(<<>>, shortnames_enabled)
    /\ artwork_data' = "None"
    /\ UNCHANGED <<shortnames_enabled, fade_last_checkbox, fade_last_spinbox,
                   show_progress_action, convert_checkbox,
                   convert_format_combo, save_directory, progress_bar,
                   request, call, memo>>

\* clear_files: the list and the fields are cleared, the three boxes unchecked;
\* toggle_edit_metadata then refreshes the fields of the empty list.
clear_files ==
    /\ pc = "idle"
    /\ last_op' = "clear"
    /\ items' = <<>>
    /\ full_paths' = <<>>
    /\ edit_metadata_enabled' = FALSE
    /\ omit_special_checkbox' = FALSE
    /\ fade_last_checkbox' = FALSE
    /\ fields' = [file_name_preview_edit |-> <<>>] @@ CombinedMetadata(<<>>, shortnames_enabled)
    /\ artwork_data' = "None"
    /\ UNCHANGED <<shortnames_enabled, fade_last_spinbox,
                   show_progress_action, convert_checkbox,
                   convert_format_combo, save_directory, progress_bar,
                   request, call, memo>>

toggle_shortnames ==
    /\ pc = "idle"
    /\ last_op' = "shortnames"
    /\ shortnames_enabled' = ~shortnames_enabled
    /\ fields' = Refreshed(items, full_paths, shortnames_enabled', edit_metadata_enabled)
    /\ artwork_data' = RefreshedArtwork(full_paths, edit_metadata_enabled)
    /\ UNCHANGED <<items, full_paths, omit_special_checkbox,
                   fade_last_checkbox, fade_last_spinbox,
                   show_progress_action, convert_checkbox,
                   convert_format_combo, edit_metadata_enabled,
                   save_directory, progress_bar, request, call, memo>>

ToggleOmitSpecial ==
    /\ pc = "idle"
    /\ omit_special_checkbox' = ~omit_special_checkbox
    /\ UNCHANGED <<items, full_paths, shortnames_enabled, artwork_data,
                   fade_last_checkbox, fade_last_spinbox,
                   show_progress_action, convert_checkbox,
                   convert_format_combo, edit_metadata_enabled,
                   save_directory, fields, progress_bar, request, call, memo, last_op>>

ToggleFadeLast ==
    /\ pc = "idle"
    /\ fade_last_checkbox' = ~fade_last_checkbox
    /\ UNCHANGED <<items, full_paths, shortnames_enabled, artwork_data,
                   omit_special_checkbox, fade_last_spinbox,
                   show_progress_action, convert_checkbox,
                   convert_format_combo, edit_metadata_enabled,
                   save_directory, fields, progress_bar, request, call, memo, last_op>>

\* The spin box is enabled only while the fade box is checked.
SetFadeSeconds(v) ==
    /\ pc = "idle"
    /\ fade_last_checkbox
    /\ v # fade_last_spinbox
    /\ fade_last_spinbox' = v
    /\ UNCHANGED <<items, full_paths, shortnames_enabled, artwork_data,
                   omit_special_checkbox, fade_last_checkbox,
                   show_progress_action, convert_checkbox,
                   convert_format_combo, edit_metadata_enabled,
                   save_directory, fields, progress_bar, request, call, memo, last_op>>

toggle_progress_bar_setting ==
    /\ pc = "idle"
    /\ show_progress_action' = ~show_progress_action
    /\ progress_bar' = [progress_bar EXCEPT !.visible = show_progress_action']
    /\ UNCHANGED <<items, full_paths, shortnames_enabled, artwork_data,
                   omit_special_checkbox, fade_last_checkbox,
                   fade_last_spinbox, convert_checkbox,
                   convert_format_combo, edit_metadata_enabled,
                   save_directory, fields, request, call, memo, last_op>>

ToggleConvert ==
    /\ pc = "idle"
    /\ convert_checkbox' = ~convert_checkbox
    /\ UNCHANGED <<items, full_paths, shortnames_enabled, artwork_data,
                   omit_special_checkbox, fade_last_checkbox,
                   fade_last_spinbox, show_progress_action,
                   convert_format_combo, edit_metadata_enabled,
                   save_directory, fields, progress_bar, request, call, memo, last_op>>

\* The combo box is enabled only while the convert box is checked.
SelectConvertFormat(fmt) ==
    /\ pc = "idle"
    /\ convert_checkbox
    /\ fmt # convert_format_combo
    /\ convert_format_combo' = fmt
    /\ UNCHANGED <<items, full_paths, shortnames_enabled, artwork_data,
                   omit_special_checkbox, fade_last_checkbox,
                   fade_last_spinbox, show_progress_action,
                   convert_checkbox, edit_metadata_enabled,
                   save_directory, fields, progress_bar, request, call, memo, last_op>>

select_save_directory ==
    /\ pc = "idle"
    /\ save_directory' = SaveDir
    /\ UNCHANGED <<items, full_paths, shortnames_enabled, artwork_data,
                   omit_special_checkbox, fade_last_checkbox,
                   fade_last_spinbox, show_progress_action,
                   convert_checkbox, convert_format_combo,
                   edit_metadata_enabled, fields, progress_bar, request,
                   call, memo, last_op>>

toggle_edit_metadata ==
    /\ pc = "idle"
    /\ edit_metadata_enabled' = ~edit_metadata_enabled
    /\ fields' = Refreshed(items, full_paths, shortnames_enabled, edit_metadata_enabled')
    /\ artwork_data' = RefreshedArtwork(full_paths, edit_metadata_enabled')
    /\ UNCHANGED <<items, full_paths, shortnames_enabled,
                   omit_special_checkbox, fade_last_checkbox,
                   fade_last_spinbox, show_progress_action,
                   convert_checkbox, convert_format_combo, save_directory,
                   progress_bar, request, call, memo, last_op>>

\* What the user types into a metadata line edit (editable in edit mode only).
TypedText ==
    [artist_edit |-> {<<"G", "R", "A", "T", "E", "F", "U", "L", " ", "d", "e", "a", "d">>,
                      <<"g", "r", "a", "t", "e", "f", "u", "l", " ", "d", "e", "a", "d", " ">>},
     genre_edit |-> {<<"J", "a", "z", "z">>},
     album_artist_edit |-> {<<"P", "h", "i", "s", "h">>}]

EditField(name, text) ==
    /\ pc = "idle"
    /\ edit_metadata_enabled
    /\ fields[name] # text
    /\ fields' = [fields EXCEPT ![name] = text]
    /\ UNCHANGED <<items, full_paths, shortnames_enabled, artwork_data,
                   omit_special_checkbox, fade_last_checkbox,
                   fade_last_spinbox, show_progress_action,
                   convert_checkbox, convert_format_combo,
                   edit_metadata_enabled, save_directory, progress_bar,
                   request, call, memo, last_op>>

\* change_artwork: the button is enabled in edit mode only; the user picks a
\* .jpg or .png image.
change_artwork ==
    /\ pc = "idle"
    /\ edit_metadata_enabled
    /\ artwork_data' = "custom"
    /\ UNCHANGED <<items, full_paths, shortnames_enabled,
                   omit_special_checkbox, fade_last_checkbox,
                   fade_last_spinbox, show_progress_action,
                   convert_checkbox, convert_format_combo,
                   edit_metadata_enabled, save_directory, fields,
                   progress_bar, request, call, memo, last_op>>

-----------------------------------------------------------------------------
(* process_files *)

\* An entry of the log: what was done, in which sub-run, to the track at which
\* position of the list or to which output path, with what value and outcome.
Ev(e, s, p, v, o) == [ev |-> e, sub |-> s, pos |-> p, path |-> <<>>, val |-> v, ok |-> o]

EvAt(e, s, path, v, o) == [ev |-> e, sub |-> s, pos |-> 0, path |-> path, val |-> v, ok |-> o]

\* A list of paths with each track's position in the list.
Enumerate(paths) == [i \in 1..Len(paths) |-> [pos |-> i, path |-> paths[i]]]

Put(files, path, file) ==
    [x \in DOMAIN files \cup {path} |-> IF x = path THEN file ELSE files[x]]

\* QProgressBar.setValue: a value outside the range is ignored.
SetValue(bar, v) ==
    IF v < 0 \/ v > bar.maximum THEN bar ELSE [bar EXCEPT !.value = v]

ProgressReset == [progress_bar EXCEPT !.visible = FALSE, !.value = 0]

omitted_indices(titles) == {i \in 1..Len(titles) : titles[i] \in memo.special_titles}

MinOf(S) == CHOOSE i \in S : \A j \in S : i <= j

MaxOf(S) == CHOOSE i \in S : \A j \in S : i >= j

\* titles[:first_omit]
BeforeOmit(list, omitted) == SubSeq(list, 1, MinOf(omitted) - 1)

\* AfterOmit with the slice begun at the last marker itself.
AfterOmitFromLast(list, omitted) == SubSeq(list, MaxOf(omitted), Len(list))

\* titles[last_omit + 1:]
AfterOmit(list, omitted) == SubSeq(list, MaxOf(omitted) + 1, Len(list))

\* The conversion logic: the extension, the export format and the bitrate.
OutputChoice(checked, fmt, first_file) ==
    IF checked
    THEN CASE fmt = "FLAC" ->
                [file_extension |-> s_flac, output_format |-> Tail(s_flac), bitrate |-> "None"]
           [] fmt = "WAV" ->
                [file_extension |-> s_wav, output_format |-> Tail(s_wav), bitrate |-> "None"]
           [] fmt = "MP3 320" ->
                [file_extension |-> s_mp3, output_format |-> Tail(s_mp3), bitrate |-> "320k"]
           [] fmt = "MP3 256" ->
                [file_extension |-> s_mp3, output_format |-> Tail(s_mp3), bitrate |-> "256k"]
           [] fmt = "MP3 128" ->
                [file_extension |-> s_mp3, output_format |-> Tail(s_mp3), bitrate |-> "128k"]
    ELSE LET ext == memo.facts[first_file].extension
         IN  [file_extension |-> ext,
              output_format |-> IF ext = <<>> THEN <<>> ELSE Tail(ext),
              bitrate |-> "None"]

\* The dialogs process_files shows before it starts, and their answers so far.
Suspicious == is_track_order_suspicious(full_paths)

NoArtwork == ~any_file_has_artwork(full_paths)

OrderAccepted == IF Suspicious THEN <<Ev("warn_order", "none", 0, 0, TRUE)>> ELSE <<>>

ArtworkAccepted == IF NoArtwork THEN <<Ev("warn_artwork", "none", 0, 0, TRUE)>> ELSE <<>>

CanStart == pc = "idle" /\ Len(full_paths) # 0 /\ save_directory # <<>>

\* The locals set before the merge itself (lines 722-758).
StartFrame ==
    LET choice == OutputChoice(convert_checkbox, convert_format_combo, full_paths[1])
    IN  [NoFrame EXCEPT
            !.proposed_file_name =
                IF edit_metadata_enabled THEN fields.file_name_preview_edit
                ELSE get_auto_proposed_filename(items, full_paths, shortnames_enabled),
            !.file_extension = choice.file_extension,
            !.output_format = choice.output_format,
            !.bitrate = choice.bitrate,
            !.date_str = extract_date_for_filename(full_paths[1]),
            !.fade_duration = fade_last_spinbox * 1000]

StartBar ==
    [value |-> 0, maximum |-> Len(full_paths), visible |-> show_progress_action]

\* Nothing to process, or no save directory: process_files returns at once.
ProcessNothing ==
    /\ pc = "idle"
    /\ Len(full_paths) = 0 \/ save_directory = <<>>
    /\ pc' = "done"
    /\ UNCHANGED <<memo, call, ui, progress_bar, frame, written, log>>

\* DeclineOrder with the answer not looked at: the merge starts all the same.
DeclineOrderButGoOn ==
    /\ CanStart
    /\ Suspicious
    /\ log' = <<Ev("warn_order", "none", 0, 0, FALSE)>>
    /\ frame' = [StartFrame EXCEPT !.sub = "std"]
    /\ progress_bar' = StartBar
    /\ pc' = "decode"
    /\ UNCHANGED <<memo, call, ui, written>>

\* The user cancels the track-order warning.
DeclineOrder ==
    /\ CanStart
    /\ Suspicious
    /\ log' = <<Ev("warn_order", "none", 0, 0, FALSE)>>
    /\ progress_bar' = ProgressReset
    /\ pc' = "done"
    /\ UNCHANGED <<memo, call, ui, frame, written>>

\* The user cancels the missing-artwork warning.
DeclineArtwork ==
    /\ CanStart
    /\ NoArtwork
    /\ log' = OrderAccepted \o <<Ev("warn_artwork", "none", 0, 0, FALSE)>>
    /\ progress_bar' = ProgressReset
    /\ pc' = "done"
    /\ UNCHANGED <<memo, call, ui, frame, written>>

\* SplitRequested with the omit box not looked at.
SplitRequestedUnchecked == omitted_indices(get_titles(items, shortnames_enabled)) # {}

\* Whether process_files takes the omit branch (lines 770 and 775).
SplitRequested ==
    omit_special_checkbox /\ omitted_indices(get_titles(items, shortnames_enabled)) # {}

\* The locals of the omit branch: the titles and paths before the first
\* marker and after the last (lines 770-783).
SplitFrame ==
    LET titles == get_titles(items, shortnames_enabled)
        paths == Enumerate(full_paths)
        omitted == omitted_indices(titles)
    IN  [StartFrame EXCEPT
            !.paths = paths,
            !.before_titles = BeforeOmit(titles, omitted),
            !.before_paths = BeforeOmit(paths, omitted),
            !.after_titles = AfterOmit(titles, omitted),
            !.after_paths = AfterOmit(paths, omitted)]

\* The sub-run the omit branch begins with: the tracks before the first
\* marker if there are any, else those after the last, else none.
BeginSplit(split) ==
    IF split.before_paths # <<>>
    THEN /\ frame' = [split EXCEPT !.sub = "before"]
         /\ progress_bar' = StartBar
         /\ pc' = "decode"
    ELSE IF split.after_paths # <<>>
    THEN /\ frame' = [split EXCEPT !.sub = "after"]
         /\ progress_bar' = StartBar
         /\ pc' = "decode"
    ELSE /\ frame' = split
         /\ progress_bar' = [StartBar EXCEPT !.visible = FALSE]
         /\ pc' = "done"

\* The omit branch up to the first decode (lines 770-783, 795, 814-816).
StartSplit ==
    /\ CanStart
    /\ SplitRequested
    /\ BeginSplit(SplitFrame)
    /\ log' = OrderAccepted \o ArtworkAccepted
    /\ UNCHANGED <<memo, call, ui, written>>

\* The standard merge up to the first decode.
StartStandard ==
    /\ CanStart
    /\ ~SplitRequested
    /\ frame' = [StartFrame EXCEPT !.sub = "std"]
    /\ progress_bar' = StartBar
    /\ pc' = "decode"
    /\ log' = OrderAccepted \o ArtworkAccepted
    /\ UNCHANGED <<memo, call, ui, written>>

\* The list the running decode loop goes through: the standard merge reads
\* list_widget.full_paths itself, the omit branch its two slices.
CurrentPaths ==
    CASE frame.sub = "before" -> frame.before_paths
      [] frame.sub = "after" -> frame.after_paths
      [] OTHER -> Enumerate(full_paths)

CurrentTitles ==
    CASE frame.sub = "before" -> frame.before_titles
      [] frame.sub = "after" -> frame.after_titles
      [] OTHER -> <<>>

\* FadeHere with the last track of every sub-run faded.
FadeHereEverySubRun(idx) ==
    /\ fade_last_checkbox
    /\ frame.fade_duration > 0
    /\ idx = Len(CurrentPaths) - 1

\* Whether the loop fades the track it is at (idx counts from 0).
FadeHere(idx) ==
    /\ fade_last_checkbox
    /\ frame.fade_duration > 0
    /\ CASE frame.sub = "after" -> idx = Len(frame.after_paths) - 1
         [] frame.sub = "std" -> idx = Len(full_paths) - 1
         [] OTHER -> FALSE

\* ProgressAfter with the after sub-run counted from 1 again.
ProgressAfterPerSubRun(idx) == idx + 1

\* The value the loop hands the progress bar after the track at idx.
ProgressAfter(idx) ==
    IF frame.sub = "after" THEN Len(frame.before_paths) + idx + 1 ELSE idx + 1

\* DecodeTrack with the new buffer put in front of the accumulator.
DecodeTrackPrepending ==
    /\ pc = "decode"
    /\ LET idx == frame.idx
           track == CurrentPaths[idx + 1]
           audio == [pos |-> track.pos, path |-> track.path, fade |-> 0]
       IN  /\ frame' = [frame EXCEPT !.idx = idx + 1,
                                     !.merged_audio = <<audio>> \o frame.merged_audio]
           /\ log' = Append(log, Ev("decode", frame.sub, track.pos, 0, TRUE))
           /\ pc' = IF idx + 1 = Len(CurrentPaths) THEN "export" ELSE "decode"
    /\ UNCHANGED <<memo, call, ui, written, progress_bar>>

\* One pass of a decode loop: the track is decoded, faded if it is the one to
\* fade, appended, and the progress bar is moved.
DecodeTrack ==
    /\ pc = "decode"
    /\ LET idx == frame.idx
           track == CurrentPaths[idx + 1]
           fade == IF FadeHere(idx) THEN frame.fade_duration ELSE 0
           audio == [pos |-> track.pos, path |-> track.path, fade |-> fade]
           shown == ProgressAfter(idx)
       IN  /\ frame' = [frame EXCEPT !.idx = idx + 1,
                                     !.merged_audio = Append(frame.merged_audio, audio)]
           /\ log' = log
                \o <<Ev("decode", frame.sub, track.pos, 0, TRUE)>>
                \o (IF fade > 0 THEN <<Ev("fade", frame.sub, track.pos, fade, TRUE)>>
                    ELSE <<>>)
                \o (IF show_progress_action
                    THEN <<Ev("progress", frame.sub, track.pos, shown, TRUE)>>
                    ELSE <<>>)
           /\ progress_bar' = IF show_progress_action THEN SetValue(progress_bar, shown)
                              ELSE progress_bar
           /\ pc' = IF idx + 1 = Len(CurrentPaths) THEN "export" ELSE "decode"
    /\ UNCHANGED <<memo, call, ui, written>>

\* DecodeError with the loop going on to the next track instead of returning.
DecodeErrorSwallowed ==
    /\ pc = "decode"
    /\ frame.sub = "std"
    /\ log' = Append(log, Ev("decode", frame.sub, CurrentPaths[frame.idx + 1].pos, 0, FALSE))
    /\ frame' = [frame EXCEPT !.idx = frame.idx + 1]
    /\ pc' = IF frame.idx + 1 = Len(CurrentPaths) THEN "export" ELSE "decode"
    /\ UNCHANGED <<memo, call, ui, progress_bar, written>>

\* AudioSegment.from_file raises in the standard merge: caught (lines 834-838).
DecodeError ==
    /\ pc = "decode"
    /\ frame.sub = "std"
    /\ log' = Append(log, Ev("decode", frame.sub, CurrentPaths[frame.idx + 1].pos, 0, FALSE))
    /\ progress_bar' = ProgressReset
    /\ pc' = "done"
    /\ UNCHANGED <<memo, call, ui, frame, written>>

\* AudioSegment.from_file raises in the omit branch: nothing catches it, and the
\* exception leaves process_files.
DecodeRaise ==
    /\ pc = "decode"
    /\ frame.sub \in {"before", "after"}
    /\ log' = Append(log, Ev("decode", frame.sub, CurrentPaths[frame.idx + 1].pos, 0, FALSE))
    /\ pc' = "raised"
    /\ UNCHANGED <<memo, call, ui, progress_bar, frame, written>>

\* The output path of the sub-run being exported.
OutputPath ==
    IF frame.sub = "std"
    THEN frame.proposed_file_name
            \o (IF EndsWith(frame.proposed_file_name, frame.file_extension)
                THEN <<>> ELSE frame.file_extension)
    ELSE Join(CurrentTitles, <<" ", "-", " ">>)
            \o <<" ", "(">> \o frame.date_str \o <<")">> \o frame.file_extension

\* The formats the encoder can write; "ape" is not one of them.
CanEncode(format) == format \in {Tail(s_flac), Tail(s_wav), Tail(s_mp3)}

\* export_merged_file, lines 849-857: the export succeeds.
ExportAudio ==
    /\ pc = "export"
    /\ CanEncode(frame.output_format)
    /\ frame' = [frame EXCEPT !.output_path = OutputPath]
    /\ written' = Put(written, OutputPath, [audio |-> frame.merged_audio, tags |-> NoTags])
    /\ log' = Append(log, EvAt("export", frame.sub, OutputPath, 0, TRUE))
    /\ pc' = "tag"
    /\ UNCHANGED <<memo, call, ui, progress_bar>>

\* export_merged_file, lines 858-860: the export raises; export_merged_file
\* prints and returns.  The encoder opens its target before it encodes, so the
\* failure leaves either nothing new at the path or an empty file.
ExportError ==
    /\ pc = "export"
    /\ frame' = [frame EXCEPT !.output_path = OutputPath]
    /\ \/ written' = written
       \/ written' = Put(written, OutputPath, [audio |-> <<>>, tags |-> NoTags])
    /\ log' = Append(log, EvAt("export", frame.sub, OutputPath, 0, FALSE))
    /\ pc' = "success"
    /\ UNCHANGED <<memo, call, ui, progress_bar>>

TagOrder == <<"title", "artist", "genre", "albumartist">>

\* TagValues without the Grateful Dead override.
TagValuesAsTyped ==
    [title |-> IF frame.sub = "std" THEN fields.title_edit
               ELSE Join(CurrentTitles, <<" ", ">", " ">>),
     artist |-> fields.artist_edit,
     genre |-> fields.genre_edit,
     albumartist |-> fields.album_artist_edit]

\* The values export_merged_file writes (lines 862-870).
TagValues ==
    LET gd == IsGratefulDead(fields.artist_edit)
    IN  [title |-> IF frame.sub = "std" THEN fields.title_edit
                   ELSE Join(CurrentTitles, <<" ", ">", " ">>),
         artist |-> fields.artist_edit,
         genre |-> IF gd THEN s_Rock ELSE fields.genre_edit,
         albumartist |-> IF gd THEN s_Grateful_Dead ELSE fields.album_artist_edit]

\* The first k tags of the file.
TagsWritten(k) == [t \in {TagOrder[i] : i \in 1..k} |-> TagValues[t]]

Tagged(k) == [written EXCEPT ![frame.output_path].tags = TagsWritten(k)]

IsTaggedFormat == frame.file_extension \in {s_flac, s_mp3}

\* Lines 871-892: the tags are written and saved.
WriteTags ==
    /\ pc = "tag"
    /\ IsTaggedFormat
    /\ written' = Tagged(Len(TagOrder))
    /\ log' = Append(log, EvAt("tag", frame.sub, frame.output_path, Len(TagOrder), TRUE))
    /\ pc' = "success"
    /\ UNCHANGED <<memo, call, ui, progress_bar, frame>>

\* TagError with the exported file removed.
TagErrorRemovesFile ==
    /\ pc = "tag"
    /\ IsTaggedFormat
    /\ written' = [p \in DOMAIN written \ {frame.output_path} |-> written[p]]
    /\ log' = Append(log, EvAt("tag", frame.sub, frame.output_path, 0, FALSE))
    /\ pc' = "success"
    /\ UNCHANGED <<memo, call, ui, progress_bar, frame>>

\* Lines 893-894: the tag write raises; it is printed, and the file stays.
TagError ==
    /\ pc = "tag"
    /\ IsTaggedFormat
    /\ \E k \in {0, Len(TagOrder) - 1} :
        /\ written' = Tagged(k)
        /\ log' = Append(log, EvAt("tag", frame.sub, frame.output_path, k, FALSE))
    /\ pc' = "success"
    /\ UNCHANGED <<memo, call, ui, progress_bar, frame>>

\* Neither .flac nor .mp3: no tag is written.
SkipTags ==
    /\ pc = "tag"
    /\ ~IsTaggedFormat
    /\ pc' = "success"
    /\ UNCHANGED <<memo, call, ui, progress_bar, frame, written, log>>

\* ShowSuccess with process_files ending after the first sub-run exported.
ShowSuccessOnce ==
    /\ pc = "success"
    /\ log' = Append(log, EvAt("success", frame.sub, frame.output_path, 0, TRUE))
    /\ progress_bar' = ProgressReset
    /\ pc' = "done"
    /\ UNCHANGED frame
    /\ UNCHANGED <<memo, call, ui, written>>

\* show_success_dialog, then the after sub-run if there is one to do, else the
\* end of process_files.
ShowSuccess ==
    /\ pc = "success"
    /\ log' = Append(log, EvAt("success", frame.sub, frame.output_path, 0, TRUE))
    /\ IF frame.sub = "before" /\ frame.after_paths # <<>>
       THEN /\ frame' = [frame EXCEPT !.sub = "after", !.idx = 0,
                                      !.merged_audio = <<>>, !.output_path = <<>>]
            /\ pc' = "decode"
            /\ UNCHANGED progress_bar
       ELSE /\ progress_bar' = ProgressReset
            /\ pc' = "done"
            /\ UNCHANGED frame
    /\ UNCHANGED <<memo, call, ui, written>>

\* process_files has returned; the next request starts afresh.
Return ==
    /\ pc = "done"
    /\ pc' = "idle"
    /\ frame' = NoFrame
    /\ written' = NoFile
    /\ log' = <<>>
    /\ UNCHANGED <<memo, call, ui, progress_bar>>

\* The exception of DecodeRaise reaches the event loop: PyQt either prints it
\* and goes on, or ends the program.
Unhandled ==
    /\ pc = "raised"
    /\ \/ /\ pc' = "idle"
          /\ frame' = NoFrame
          /\ written' = NoFile
          /\ log' = <<>>
       \/ /\ pc' = "aborted"
          /\ UNCHANGED <<frame, written, log>>
    /\ UNCHANGED <<memo, call, ui, progress_bar>>

-----------------------------------------------------------------------------
(* Specifications *)

\* The files the user merges.
MergeFiles == {"jam", "drums", "space", "fire"}

\* The user's operations on the list and on the merge options.
UserAction ==
    \/ \E f \in MergeFiles : AddFile(f, MaxTracks)
    \/ clear_files
    \/ ToggleOmitSpecial
    \/ ToggleFadeLast
    \/ \E v \in FadeSeconds : SetFadeSeconds(v)
    \/ toggle_progress_bar_setting
    \/ select_save_directory

\* The steps of a merge request.
ProcessStep ==
    \/ ProcessNothing
    \/ DeclineOrder
    \/ DeclineArtwork
    \/ StartSplit
    \/ StartStandard
    \/ DecodeTrack
    \/ DecodeError
    \/ DecodeRaise
    \/ ExportAudio
    \/ ExportError
    \/ WriteTags
    \/ TagError
    \/ SkipTags
    \/ ShowSuccess
    \/ Return
    \/ Unhandled

Next == UserAction \/ ProcessStep

Spec == Init /\ [][Next]_vars

\* The formats the user picks in the conversion combo box.
PickedFormats == {"WAV", "MP3 320"}

\* The user's operations on the metadata and on the conversion.
MetaAction ==
    \/ \E f \in MergeFiles : AddFile(f, MaxEditTracks)
    \/ toggle_edit_metadata
    \/ \E name \in DOMAIN TypedText : \E text \in TypedText[name] : EditField(name, text)
    \/ ToggleConvert
    \/ \E fmt \in PickedFormats : SelectConvertFormat(fmt)
    \/ select_save_directory

\* The steps of a standard merge request.
StandardStep ==
    \/ ProcessNothing
    \/ DeclineOrder
    \/ DeclineArtwork
    \/ StartStandard
    \/ DecodeTrack
    \/ DecodeError
    \/ ExportAudio
    \/ ExportError
    \/ WriteTags
    \/ TagError
    \/ SkipTags
    \/ ShowSuccess
    \/ Return

NextMeta == MetaAction \/ StandardStep

SpecMeta == Init /\ [][NextMeta]_vars

-----------------------------------------------------------------------------
(* extract_date_for_filename called on its own *)

\* The parent directories the first file is in.
DateDirs ==
    {<<"g", "d">>,
     <<"1", "9", "7", "7", "-", "0", "5", "-", "0", "8">>,
     <<"g", "d", "1", "9", "7", "7", "_", "0", "5", ".", "0", "8", " ", "s", "b", "d">>,
     <<"1", "9", "7", "7", "-", "5", "-", "8">>,
     <<"2", "1", "9", "7", "7", "-", "0", "5", "-", "0", "8", "1">>}

\* The base names of the first file.
DateNames ==
    {<<"1", " ", "J", "a", "m", ".", "f", "l", "a", "c">>,
     <<"g", "d", "1", "9", "9", "0", ".", "0", "3", ".", "2", "9", " ", "J", "a", "m", ".", "m", "p", "3">>,
     <<"1", "9", "9", "0", "-", "0", "3", "-", "2", "9", ".", "w", "a", "v">>,
     <<"d", "1", "t", "0", "1", ".", "F", "L", "A", "C">>}

\* The date tags of the first file, <<>> for none or an unreadable one.
DateTags ==
    {<<>>,
     <<"1", "9", "8", "5">>,
     <<"1", "9", "8", "5", "-", "0", "6", "-", "1", "4">>,
     <<"8", "5", "-", "0", "6", "-", "1", "4">>,
     <<"1", "9", "8", "5", "-", "0", "6">>,
     <<"1", "9", "8", "5", "0", "6", "1", "4">>}

\* The day of the first file's last modification, as strftime('%Y-%m-%d') gives it.
ModTimes ==
    {<<"2", "0", "2", "4", "-", "0", "1", "-", "0", "1">>}

InitDate ==
    /\ InitWindow
    /\ call \in
        {[fn |-> "extract_date_for_filename", parent_dir |-> d, first_file_name |-> n,
          date_tag |-> t, mod_time |-> m, done |-> FALSE, date_str |-> <<>>] :
            d \in DateDirs, n \in DateNames, t \in DateTags, m \in ModTimes}

\* extract_date_for_filename(first_file) returns.
CallExtractDate ==
    /\ call.fn = "extract_date_for_filename"
    /\ ~call.done
    /\ call' = [call EXCEPT
                    !.done = TRUE,
                    !.date_str = DateFor(call.parent_dir, call.first_file_name,
                                         call.date_tag, call.mod_time)]
    /\ UNCHANGED <<ui, progress_bar, request, memo>>

NextDate == CallExtractDate

SpecDate == InitDate /\ [][NextDate]_vars

-----------------------------------------------------------------------------
(* extract_song_title called on its own *)

\* The file names, less the extension, that titles are extracted from.
RawTitles ==
    {<<"0", "3", "-", "S", "c", "a", "r", "l", "e", "t", " ", "B", "e", "g", "o", "n", "i", "a", "s">>,
     <<"1", "-", "0", "3", " ", "s", "c", "a", "r", "l", "e", "t", "_", "b", "e", "g", "o", "n", "i", "a", "s">>,
     <<"S", "c", "a", "r", "l", "e", "t", " ", "B", "e", "g", "o", "n", "a", "i", "s">>,
     <<"s", "c", "a", "r", "l", "e", "t", "-", "b", "e", "g", "o", "n", "i", "a", "'", "s">>,
     <<"S", "c", "a", "r", "l", "e", "t">>,
     <<"1", "2", " ", "F", "i", "r", "e", " ", "O", "n", " ", "T", "h", "e", " ", "M", "o", "u", "n", "t", "a", "i", "n">>,
     <<"F", "i", "r", "e">>,
     <<"f", "i", "r", "e", " ", "m", "o", "u", "n", "t", "a", "i", "n">>,
     <<"3", " ", "s", "p", "a", "c", "e">>,
     <<"S", "p", "a", "c", "e", "s">>,
     <<"2", " ", "D", "r", "u", "m", "s">>,
     <<"1", " ", "J", "a", "m">>,
     <<"1", "2", "3", "4", "5">>,
     <<"d", "1", "t", "0", "1", " ", "-", " ", "J", "a", "m", "_", "2">>}

\* The catalog as loaded, or empty after load_song_list failed.
SongLists == {SongList, <<>>}

\* The short names as loaded, or none after load_shortname_map failed.
ShortnameMaps == {ShortnameMap, <<>>}

InitTitle ==
    /\ InitWindow
    /\ call \in
        {[fn |-> "extract_song_title", raw_title |-> r, song_list |-> l,
          shortname_map |-> m, shortnames_enabled |-> e, done |-> FALSE, title |-> <<>>] :
            r \in RawTitles, l \in SongLists, m \in ShortnameMaps, e \in BOOLEAN}

\* extract_song_title(raw_title) returns.
CallExtractSongTitle ==
    /\ call.fn = "extract_song_title"
    /\ ~call.done
    /\ call' = [call EXCEPT
                    !.done = TRUE,
                    !.title = extract_song_title(call.raw_title, call.song_list,
                                                 call.shortname_map, call.shortnames_enabled)]
    /\ UNCHANGED <<ui, progress_bar, request, memo>>

NextTitle == CallExtractSongTitle

SpecTitle == InitTitle /\ [][NextTitle]_vars

-----------------------------------------------------------------------------
(* normalize_title called on its own, and again on what it returned *)

\* The most pieces a title to normalize is made of.
MaxPieces == 3

\* The pieces the titles to normalize are made of.
Pieces ==
    {<<"f", "e", "e", "l">>,
     <<"i", "n", "g">>,
     <<"g">>,
     <<" ">>,
     <<"'">>,
     <<"F", "e", "e", "l", "i", "n">>,
     <<".">>}

\* The titles made of at most n pieces.
TitlesOf(n) == {Join(ps, <<>>) : ps \in UNION {[1..k -> Pieces] : k \in 0..n}}

InitNormalize ==
    /\ InitWindow
    /\ call \in
        {[fn |-> "normalize_title", title |-> t, times |-> 0, once |-> <<>>, twice |-> <<>>] :
            t \in TitlesOf(MaxPieces)}

\* normalize_title(title) returns, and then normalize_title of what it returned.
CallNormalizeTitle ==
    /\ call.fn = "normalize_title"
    /\ call.times < 2
    /\ call' = IF call.times = 0
               THEN [call EXCEPT !.times = 1, !.once = normalize_title(call.title)]
               ELSE [call EXCEPT !.times = 2, !.twice = normalize_title(call.once)]
    /\ UNCHANGED <<ui, progress_bar, request, memo>>

NextNormalize == CallNormalizeTitle

SpecNormalize == InitNormalize /\ [][NextNormalize]_vars

-----------------------------------------------------------------------------
(* The track list on its own: adding, dragging, clearing *)

\* The files of the list: two with the same item text (jam and jam_backup),
\* one whose item text is found in another's path (drums_d in drums).
ListFiles == {"jam", "jam_backup", "drums", "drums_d", "scarlet"}

ListAction ==
    \/ \E f \in ListFiles : AddFile(f, MaxListTracks)
    \/ \E from, to \in 1..MaxListTracks : DropInternal(from, to)
    \/ clear_files
    \/ toggle_shortnames

NextList == ListAction

SpecList == Init /\ [][NextList]_vars

-----------------------------------------------------------------------------
(* The track list and the toggles in and out of edit mode *)

EditFiles == {"jam", "drums", "scarlet"}

EditAction ==
    \/ \E f \in EditFiles : AddFile(f, MaxEditTracks)
    \/ \E from, to \in 1..MaxEditTracks : DropInternal(from, to)
    \/ clear_files
    \/ toggle_shortnames
    \/ toggle_edit_metadata
    \/ \E text \in TypedText["genre_edit"] : EditField("genre_edit", text)
    \/ change_artwork
    \/ ToggleOmitSpecial
    \/ ToggleFadeLast
    \/ ToggleConvert
    \/ select_save_directory

NextEdit == EditAction

SpecEdit == Init /\ [][NextEdit]_vars

-----------------------------------------------------------------------------
(* Properties *)

\* The places of the log with an entry of one kind.
Events(e) == {i \in 1..Len(log) : log[i].ev = e}

Failed(e) == {i \in Events(e) : ~log[i].ok}

Succeeded(e) == {i \in Events(e) : log[i].ok}

\* The list positions of a sequence of tracks or of decoded buffers.
Positions(tracks) == [i \in 1..Len(tracks) |-> tracks[i].pos]

\* <<a, a + 1, ..., b>>, empty when b < a
Run(a, b) == [i \in 1..(b - a + 1) |-> a + i - 1]

\* The display titles of the list that contain a marker, case-insensitively.
MarkerTitles ==
    {t \in Range(get_titles(items, shortnames_enabled)) :
        \E m \in {s_drums, s_space, s_rhythm_devils} : Contains(Lower(t), m)}

\* The positions of the list whose display title contains a marker.
MarkerPositions ==
    LET titles == get_titles(items, shortnames_enabled)
        markers == MarkerTitles
    IN  {i \in 1..Len(items) : titles[i] \in markers}

FirstMarker == MinOf(MarkerPositions)

LastMarker == MaxOf(MarkerPositions)

\* A request is under way or just over, and it got past the warnings.
Merging == pc # "idle" /\ frame # NoFrame

\* process_files is over: it returned, or an exception left it.
Over == pc \in {"done", "raised", "aborted"}

\* C1: with the omit box checked and a marker among the display titles, the
\* request is split into the tracks before the first marker and the tracks
\* after the last one, and no track from the first to the last marker is ever
\* decoded or part of an output.
C1_OmittedRangeDropped ==
    (pc # "idle" /\ omit_special_checkbox /\ MarkerPositions # {}) =>
        /\ frame.sub # "std"
        /\ Merging =>
            /\ Positions(frame.before_paths) = Run(1, FirstMarker - 1)
            /\ Positions(frame.after_paths) = Run(LastMarker + 1, Len(full_paths))
        /\ \A i \in Events("decode") : log[i].pos \notin FirstMarker..LastMarker
        /\ \A p \in DOMAIN written :
            Positions(written[p].audio) \in
                {<<>>, Run(1, FirstMarker - 1), Run(LastMarker + 1, Len(full_paths))}
        /\ \A i, j \in Events("export") : log[i].sub = log[j].sub => i = j

\* C1 witness: a list of three with the marker in the middle has been merged
\* into two outputs.
C1_Witness ==
    /\ pc = "done"
    /\ omit_special_checkbox
    /\ Len(full_paths) = 3
    /\ MarkerPositions = {2}
    /\ Cardinality(Succeeded("export")) = 2
    /\ Cardinality(DOMAIN written) = 2

\* C2 as claimed: a request with the omit box unchecked, or with no marker
\* among the titles, that got past the warnings exports exactly once when it
\* is over.
C2_ExportsExactlyOnce ==
    (Merging /\ pc = "done" /\ ~(omit_special_checkbox /\ MarkerPositions # {})) =>
        Cardinality(Succeeded("export")) = 1

\* C2 as amended: with the omit box unchecked, or with no marker among the
\* titles, the request is one sub-run of every track in list order; it exports
\* at most once: once it is over, it has exported unless a track failed to
\* decode, and the export succeeded unless the encoder failed too; an export
\* that succeeds writes one file that holds every track.
C2_SingleSubRun ==
    (Merging /\ ~(omit_special_checkbox /\ MarkerPositions # {})) =>
        /\ frame.sub = "std"
        /\ frame.before_paths = <<>> /\ frame.after_paths = <<>>
        /\ \E k \in 0..Len(full_paths) :
            [i \in 1..Cardinality(Events("decode")) |->
                log[CHOOSE e \in Events("decode") :
                        Cardinality({d \in Events("decode") : d <= e}) = i].pos]
                = Run(1, k)
        /\ Cardinality(Events("export")) <= 1
        /\ pc = "done" =>
            /\ Events("export") # {} <=> Failed("decode") = {}
            /\ Succeeded("export") # {} <=> Failed("decode") \cup Failed("export") = {}
        /\ \A i \in Succeeded("export") :
            /\ DOMAIN written = {log[i].path}
            /\ Positions(written[log[i].path].audio) = Run(1, Len(full_paths))

\* C2 witness: three tracks without a marker, the omit box checked, merged
\* into one output.
C2_Witness ==
    /\ pc = "done"
    /\ omit_special_checkbox
    /\ Len(full_paths) = 3
    /\ MarkerPositions = {}
    /\ Cardinality(Succeeded("export")) = 1
    /\ Cardinality(DOMAIN written) = 1

\* C3: at most one track of a request is faded, only with the fade box checked
\* and a fade of more than 0 seconds, and only the last track of the list, in
\* the standard merge or the after sub-run: never a track of the before
\* sub-run, never a track that is not the last.
C3_FadeOnlyLastTrack ==
    /\ \A i \in Events("fade") :
        /\ fade_last_checkbox
        /\ fade_last_spinbox > 0
        /\ log[i].val = fade_last_spinbox * 1000
        /\ log[i].sub \in {"std", "after"}
        /\ log[i].pos = Len(full_paths)
    /\ Cardinality(Events("fade")) <= 1
    /\ \A p \in DOMAIN written : \A i \in 1..Len(written[p].audio) :
        written[p].audio[i].fade > 0 =>
            /\ i = Len(written[p].audio)
            /\ written[p].audio[i].pos = Len(full_paths)
    /\ \A i \in 1..Len(frame.merged_audio) :
        frame.merged_audio[i].fade > 0 => frame.merged_audio[i].pos = Len(full_paths)

\* C3 witness: a split request has exported a before sub-run and an after
\* sub-run whose last track is faded.
C3_Witness ==
    /\ pc = "done"
    /\ Cardinality(Succeeded("export")) = 2
    /\ \E i \in Events("fade") : log[i].sub = "after"
    /\ \E i \in Succeeded("export") : log[i].sub = "before"

\* C4 as claimed: when the split leaves a before and an after sub-run and the
\* before sub-run fails (a decode or its export), the after sub-run is still
\* decoded and exported once process_files is over.
C4_OtherSubRunStillProcessed ==
    (/\ Over
     /\ frame.before_paths # <<>>
     /\ frame.after_paths # <<>>
     /\ \E i \in Failed("decode") \cup Failed("export") : log[i].sub = "before") =>
        \E i \in Events("decode") : log[i].sub = "after"

\* C5: once a track of a sub-run fails to decode, nothing more is done: that
\* sub-run is not exported, and what an earlier sub-run of the request exported
\* is still at its path, with the audio exported.
C5_NoExportAfterDecodeFailure ==
    \A i \in Failed("decode") :
        /\ i = Len(log)
        /\ Over
        /\ \A j \in Events("export") : log[j].sub # log[i].sub
        /\ \A j \in Succeeded("export") :
            /\ log[j].path \in DOMAIN written
            /\ Positions(written[log[j].path].audio) = Positions(frame.before_paths)

\* C5 witness: the after sub-run fails to decode after the before sub-run was
\* exported.
C5_Witness ==
    /\ pc = "raised"
    /\ Failed("decode") # {}
    /\ Succeeded("export") # {}
    /\ Cardinality(DOMAIN written) = 1

\* The tracks of a sub-run of the request under way.
SubRunPaths(sub) ==
    CASE sub = "before" -> frame.before_paths
      [] sub = "after" -> frame.after_paths
      [] OTHER -> Enumerate(full_paths)

\* No export after the one at place i of the log went to the same path.
NotExportedOver(i) ==
    \A j \in Events("export") : j > i => log[j].path # log[i].path

\* C6: a tag write comes straight after the successful export of the same
\* sub-run to the same path; whether it succeeds or fails, the exported file
\* stays at its path with the audio exported, a failure leaving it with none or
\* only some of its tags; the failure is not raised: show_success_dialog is
\* what comes next.
C6_TagFailureKeepsAudio ==
    /\ \A i \in Events("tag") :
        /\ i > 1
        /\ log[i - 1].ev = "export"
        /\ log[i - 1].ok
        /\ log[i - 1].sub = log[i].sub
        /\ log[i - 1].path = log[i].path
        /\ NotExportedOver(i - 1) =>
            /\ log[i].path \in DOMAIN written
            /\ written[log[i].path].audio # <<>>
            /\ Positions(written[log[i].path].audio) = Positions(SubRunPaths(log[i].sub))
    /\ \A i \in Failed("tag") :
        /\ IF i = Len(log) THEN pc = "success" ELSE log[i + 1].ev = "success"
        /\ NotExportedOver(i - 1) =>
            /\ Cardinality(DOMAIN written[log[i].path].tags) = log[i].val
            /\ log[i].val < Len(TagOrder)

\* C6 witness: the request is over, a tag write failed part of the way, and
\* the file is there with its audio and some of its tags.
C6_Witness ==
    /\ pc = "done"
    /\ \E i \in Failed("tag") :
        /\ log[i].val > 0
        /\ Len(written[log[i].path].audio) = 2
        /\ DOMAIN written[log[i].path].tags = {"title", "artist", "genre"}

\* C7: when the user declines the track-order warning or the missing-artwork
\* warning, process_files returns there: nothing is decoded, exported, tagged
\* or written for the request.
C7_DeclineAborts ==
    \A i \in Failed("warn_order") \cup Failed("warn_artwork") :
        /\ i = Len(log)
        /\ pc = "done"
        /\ frame = NoFrame
        /\ written = NoFile
        /\ Events("decode") \cup Events("export") \cup Events("tag") = {}

\* C7 witness: the track-order warning was accepted and the missing-artwork
\* warning declined.
C7_Witness ==
    /\ pc = "done"
    /\ Succeeded("warn_order") # {}
    /\ Failed("warn_artwork") # {}
    /\ Len(full_paths) >= 2

\* The values the decode loops have handed the progress bar, in order.
ProgressValues ==
    LET at == Events("progress")
        nth(k) == CHOOSE i \in at : Cardinality({j \in at : j <= i}) = k
    IN  [k \in 1..Cardinality(at) |-> log[nth(k)].val]

\* The entry after a decode and its fade, if it has one.
AfterDecode(i) == IF i < Len(log) /\ log[i + 1].ev = "fade" THEN i + 2 ELSE i + 1

\* C8 as claimed: in any request the progress bar is updated once for each
\* completed decode.
C8_OneUpdatePerDecode ==
    Cardinality(Events("progress")) = Cardinality(Succeeded("decode"))

\* C8 as amended: with "Show Progress Bar" checked, each completed decode is
\* followed, before anything else is decoded, by one update of the progress
\* bar for that track; the values are 1, 2, ... without a gap, also from the
\* before sub-run to the after sub-run, and none exceeds the maximum, the
\* length of the list.  With it unchecked, the loops never update the bar.
C8_ProgressWhenShown ==
    pc # "idle" =>
        /\ ~show_progress_action => Events("progress") = {}
        /\ show_progress_action =>
            /\ \A i \in Succeeded("decode") :
                /\ AfterDecode(i) <= Len(log)
                /\ log[AfterDecode(i)].ev = "progress"
                /\ log[AfterDecode(i)].pos = log[i].pos
            /\ Cardinality(Events("progress")) = Cardinality(Succeeded("decode"))
            /\ ProgressValues = Run(1, Cardinality(Events("progress")))
            /\ \A i \in Events("progress") : log[i].val <= progress_bar.maximum
            /\ Events("progress") # {} =>
                /\ progress_bar.maximum = Len(full_paths)
                /\ pc \in {"decode", "export", "tag", "success"} =>
                    progress_bar.value = Cardinality(Events("progress"))

\* C8 witness: a split request with the progress bar shown has decoded a
\* before and an after sub-run.
C8_Witness ==
    /\ pc = "done"
    /\ show_progress_action
    /\ \E i, j \in Events("progress") :
        /\ log[i].sub = "before" /\ log[j].sub = "after"
        /\ log[i].val = 1 /\ log[j].val = 2

\* C9: the accumulator of a decode loop holds the tracks of its sub-run
\* decoded so far, each once, in list order, and a file exported for a sub-run
\* holds exactly the tracks of that sub-run, each once, in the order of the
\* list.
C9_ConcatenationInListOrder ==
    /\ pc \in {"decode", "export"} =>
        /\ Positions(frame.merged_audio)
            = SubSeq(Positions(CurrentPaths), 1, frame.idx)
        /\ pc = "export" => frame.idx = Len(CurrentPaths)
    /\ \A i \in Succeeded("export") :
        NotExportedOver(i) =>
            LET audio == written[log[i].path].audio
            IN  /\ Positions(audio) = Positions(SubRunPaths(log[i].sub))
                /\ \A k \in 1..Len(audio) : audio[k].path = full_paths[audio[k].pos]
                /\ \A k \in 1..(Len(audio) - 1) : audio[k].pos + 1 = audio[k + 1].pos
                /\ log[i].sub = "std" => Positions(audio) = Run(1, Len(full_paths))

\* C9 witness: three different tracks were merged into one file.
C9_Witness ==
    /\ pc = "done"
    /\ Cardinality(Range(full_paths)) = 3
    /\ \E p \in DOMAIN written : Len(written[p].audio) = 3

\* C10 as claimed: when the artist is "Grateful Dead" in any case, every file
\* of a request that is over and exported has the genre "Rock" and the album
\* artist "Grateful Dead".
C10_EveryOutputRock ==
    (pc = "done" /\ IsGratefulDead(fields.artist_edit)) =>
        \A i \in Succeeded("export") :
            /\ {"genre", "albumartist"} \subseteq DOMAIN written[log[i].path].tags
            /\ written[log[i].path].tags.genre = s_Rock
            /\ written[log[i].path].tags.albumartist = s_Grateful_Dead

\* C10 as amended: when the artist is "Grateful Dead" in any case, a .flac or
\* .mp3 output whose tag write succeeds has the genre "Rock" and the album
\* artist "Grateful Dead", whatever the genre and album-artist fields hold, and
\* no output has any other genre or album artist; a .wav output has no tags,
\* and a failed tag write leaves some or all of them out.
C10_TaggedOutputRock ==
    (pc # "idle" /\ IsGratefulDead(fields.artist_edit)) =>
        /\ \A i \in Succeeded("tag") :
            /\ {"genre", "albumartist"} \subseteq DOMAIN written[log[i].path].tags
            /\ written[log[i].path].tags.genre = s_Rock
            /\ written[log[i].path].tags.albumartist = s_Grateful_Dead
        /\ \A p \in DOMAIN written :
            /\ "genre" \in DOMAIN written[p].tags => written[p].tags.genre = s_Rock
            /\ "albumartist" \in DOMAIN written[p].tags =>
                written[p].tags.albumartist = s_Grateful_Dead
        /\ (pc = "done" /\ Succeeded("export") # {}) =>
            (Succeeded("tag") # {} <=>
                (frame.file_extension \in {s_flac, s_mp3} /\ Failed("tag") = {}))

\* C10 witness: in edit mode the artist was typed in another case and another
\* genre typed, and the file was tagged "Rock".
C10_Witness ==
    /\ pc = "done"
    /\ edit_metadata_enabled
    /\ fields.artist_edit # s_Grateful_Dead
    /\ IsGratefulDead(fields.artist_edit)
    /\ fields.genre_edit \notin {s_Rock, <<>>}
    /\ fields.album_artist_edit \notin {s_Grateful_Dead, <<>>}
    /\ \E i \in Succeeded("tag") : written[log[i].path].tags.genre = s_Rock

\* extract_date_for_filename has returned.
DateResolved == call.fn = "extract_date_for_filename" /\ call.done

\* YYYY-MM-DD
IsIsoDate(d) ==
    /\ Len(d) = 10
    /\ \A k \in {1, 2, 3, 4, 6, 7, 9, 10} : d[k] \in {"0", "1", "2", "3", "4", "5", "6", "7", "8", "9"}
    /\ d[5] = "-"
    /\ d[8] = "-"

\* Four digits, a separator, two digits, a separator, two digits.
IsDatePattern(w) ==
    /\ Len(w) = 10
    /\ IsIsoDate([w EXCEPT ![5] = "-", ![8] = "-"])
    /\ {w[5], w[8]} \subseteq {"-", "_", "."}

\* The places of s where a date pattern begins.
DatePlaces(s) == {i \in 1..(Len(s) - 9) : IsDatePattern(SubSeq(s, i, i + 9))}

\* d is the date of the first date pattern of s.
IsFirstDateOf(d, s) ==
    \E i \in DatePlaces(s) :
        /\ \A j \in DatePlaces(s) : i <= j
        /\ d = [SubSeq(s, i, i + 9) EXCEPT ![5] = "-", ![8] = "-"]

\* The date tag is read (of a .flac or .mp3 file) and begins with a year.
TagHasYear ==
    /\ Len(call.date_tag) >= 4
    /\ IsIsoDate(SubSeq(call.date_tag, 1, 4) \o <<"-", "0", "1", "-", "0", "1">>)
    /\ \E ext \in {s_flac, s_mp3} : EndsWith(Lower(call.first_file_name), ext)

\* C11: extract_date_for_filename returns a YYYY-MM-DD string, taken from the
\* first of these that yields a date: the parent directory's name, the file's
\* base name, the date tag (a year alone giving January 1st), the day the file
\* was last modified; a later source never overrides an earlier one.
C11_DateSourceOrder ==
    DateResolved =>
        /\ IsIsoDate(call.date_str)
        /\ IF DatePlaces(call.parent_dir) # {}
           THEN IsFirstDateOf(call.date_str, call.parent_dir)
           ELSE IF DatePlaces(call.first_file_name) # {}
           THEN IsFirstDateOf(call.date_str, call.first_file_name)
           ELSE IF TagHasYear
           THEN /\ SubSeq(call.date_str, 1, 4) = SubSeq(call.date_tag, 1, 4)
                /\ IF 1 \in DatePlaces(call.date_tag)
                   THEN IsFirstDateOf(call.date_str, call.date_tag)
                   ELSE SubSeq(call.date_str, 5, 10) = <<"-", "0", "1", "-", "0", "1">>
           ELSE call.date_str = call.mod_time

\* C11 witness: the folder, the file name and the tag each hold a different
\* date, and the folder's is returned.
C11_Witness ==
    /\ DateResolved
    /\ DatePlaces(call.parent_dir) # {}
    /\ DatePlaces(call.first_file_name) # {}
    /\ TagHasYear
    /\ IsFirstDateOf(call.date_str, call.parent_dir)
    /\ ~IsFirstDateOf(call.date_str, call.first_file_name)
    /\ SubSeq(call.date_str, 1, 4) # SubSeq(call.date_tag, 1, 4)

\* extract_song_title has returned.
TitleExtracted == call.fn = "extract_song_title" /\ call.done

\* The normalized form of the pre-cleaned input.
CleanedNorm == normalize_title(Cleaned(call.raw_title))

\* The catalog entries whose normalized form is that of the input.
ExactEntries ==
    {song \in Range(call.song_list) : normalize_title(song) = CleanedNorm}

\* The catalog entries whose normalized form is similar enough to the input's.
FuzzyEntries ==
    {song \in Range(call.song_list) : AtCutoff(Ratio(normalize_title(song), CleanedNorm))}

\* The best of the similar entries.
BestFuzzyEntries ==
    {song \in FuzzyEntries :
        \A other \in FuzzyEntries :
            ScoredLeq(Ratio(normalize_title(other), CleanedNorm), normalize_title(other),
                      Ratio(normalize_title(song), CleanedNorm), normalize_title(song))}

\* The entries the input is matched to: the exact ones before the similar ones.
MatchedEntries == IF ExactEntries # {} THEN ExactEntries ELSE BestFuzzyEntries

\* The short names the map has for a catalog entry.
ShortNamesOf(song) ==
    {call.shortname_map[i][2] : i \in ShortAt(call.shortname_map, normalize_title(song))}

\* C12: extract_song_title returns a string; when the normalized pre-cleaned
\* input is the normalized form of a catalog entry, the result is that entry
\* or its short name, whatever else is similar; when no entry is equal or
\* similar enough (as with an empty catalog), the result is the pre-cleaned
\* input, not normalized.
C12_ExactThenFallback ==
    TitleExtracted =>
        /\ call.title \in Seq({Ascii[i] : i \in 1..Len(Ascii)})
        /\ ExactEntries # {} =>
            \E song \in ExactEntries : call.title \in {song} \cup ShortNamesOf(song)
        /\ (ExactEntries = {} /\ FuzzyEntries = {}) =>
            call.title = Cleaned(call.raw_title)

\* C12 witness: a file name with a track number, in another case and with an
\* underscore, is matched exactly to its catalog entry.
C12_Witness ==
    /\ TitleExtracted
    /\ ExactEntries # {}
    /\ call.title \in ExactEntries
    /\ Lower(Cleaned(call.raw_title)) # Lower(call.title)
    /\ Cleaned(call.raw_title) # call.raw_title

\* C13: for a matched title, exact or fuzzy, extract_song_title returns the
\* short name when shortnames_enabled is true and the normalized matched title
\* is a key of the normalized short-name map, and the catalog title otherwise:
\* with shortnames_enabled false the catalog title always.
C13_ShortNameIffEnabled ==
    (TitleExtracted /\ MatchedEntries # {}) =>
        \E song \in MatchedEntries :
            IF call.shortnames_enabled /\ ShortNamesOf(song) # {}
            THEN call.title \in ShortNamesOf(song)
            ELSE call.title = song

\* C13 witness: a misspelt title is matched by similarity and its short name
\* returned.
C13_Witness ==
    /\ TitleExtracted
    /\ call.shortnames_enabled
    /\ ExactEntries = {}
    /\ \E song \in BestFuzzyEntries :
        /\ call.title \in ShortNamesOf(song)
        /\ call.title # song

\* C14 as claimed: normalize_title of what normalize_title returned is what it
\* returned.
C14_NormalizeIdempotent ==
    (call.fn = "normalize_title" /\ call.times = 2) => call.twice = call.once

\* process_files has asked is_track_order_suspicious about the list.
OrderChecked == pc # "idle" /\ (log # <<>> \/ frame # NoFrame)

\* The track-order warning was shown: is_track_order_suspicious returned true.
OrderFlagged == Events("warn_order") # {}

\* The parsed track numbers of the list, -1 for None.
ParsedNumbers == [i \in 1..Len(full_paths) |-> memo.facts[full_paths[i]].track_number]

\* (a) two tracks with a parsed number, the earlier with the greater one.
NumbersOutOfOrder ==
    \E i, j \in 1..Len(full_paths) :
        /\ i < j
        /\ ParsedNumbers[i] # -1
        /\ ParsedNumbers[j] # -1
        /\ ParsedNumbers[i] > ParsedNumbers[j]

\* (b) two tracks, the earlier with the base name that sorts later.
NamesOutOfOrder ==
    \E i, j \in 1..Len(full_paths) :
        /\ i < j
        /\ ~StrLeq(File[full_paths[i]].base, File[full_paths[j]].base)

\* C15 as claimed: a list with the parsed numbers [1, 2, 3] or [None, 2, 3]
\* is not flagged.
C15_SortedNumbersNotFlagged ==
    (OrderChecked /\ ParsedNumbers \in {<<1, 2, 3>>, <<-1, 2, 3>>}) => ~OrderFlagged

\* C15: is_track_order_suspicious returns true exactly when (a) the tracks
\* with a parsed number, at least two, are not in ascending order of number,
\* or (b) the base names, at least two, are not in lexicographic order; so
\* the numbers [2, 1, 3] are flagged, and [1, 2, 3] and [None, 2, 3] are not
\* flagged when the base names are in order.
C15_FlaggedIffOutOfOrder ==
    OrderChecked =>
        /\ OrderFlagged <=> (NumbersOutOfOrder \/ NamesOutOfOrder)
        /\ ParsedNumbers = <<2, 1, 3>> => OrderFlagged
        /\ (ParsedNumbers \in {<<1, 2, 3>>, <<-1, 2, 3>>} /\ ~NamesOutOfOrder) => ~OrderFlagged

\* C15 witness: a list with the numbers [None, 2, 3] is flagged for its base
\* names alone.
C15_Witness ==
    /\ OrderChecked
    /\ ParsedNumbers = <<-1, 2, 3>>
    /\ ~NumbersOutOfOrder
    /\ NamesOutOfOrder
    /\ OrderFlagged

\* C16 as claimed: every file process_files leaves at an output path, and
\* every path it has exported to, ends in .flac, .wav or .mp3.
C16_OutputExtensionKnown ==
    \A path \in DOMAIN written \cup {log[i].path : i \in Events("export")} :
        \E ext \in {s_flac, s_wav, s_mp3} : EndsWith(path, ext)

\* The fields as update_file_name_preview and update_combined_metadata compute
\* them from a list.
FieldsOf(item_texts, paths, shortnames) ==
    [file_name_preview_edit |->
        Join(get_titles(item_texts, shortnames), <<" ", "-", " ">>)
            \o (IF paths = <<>> THEN <<>>
                ELSE <<" ", "(">> \o extract_date_for_filename(paths[1]) \o <<")">>)]
        @@ CombinedMetadata(paths, shortnames)

\* C17: while edit mode is on, a step that changes the list (files added, a
\* drag inside the list) or the short-names setting leaves the file name
\* preview and the title, artist, album, year, genre and album artist fields
\* as they are; a step that turns edit mode off sets them all to what the
\* list as it then is gives, whatever had been typed.
C17_EditModeFreezesFields ==
    [][/\ (/\ edit_metadata_enabled
           /\ edit_metadata_enabled'
           /\ <<items, full_paths, shortnames_enabled>>' # <<items, full_paths, shortnames_enabled>>)
          => fields' = fields
       /\ (edit_metadata_enabled /\ ~edit_metadata_enabled')
          => /\ fields' = FieldsOf(items', full_paths', shortnames_enabled')
             /\ DOMAIN fields' = {"file_name_preview_edit", "title_edit", "artist_edit",
                                  "album_edit", "year_edit", "genre_edit",
                                  "album_artist_edit"}]_vars

\* C17 witness: short names were toggled in edit mode, after a genre was
\* typed: the title field is still the one of the other setting.
C17_Witness ==
    /\ edit_metadata_enabled
    /\ last_op = "shortnames"
    /\ fields.genre_edit \in TypedText["genre_edit"]
    /\ fields.title_edit = CombinedMetadata(full_paths, ~shortnames_enabled).title_edit
    /\ fields.title_edit # CombinedMetadata(full_paths, shortnames_enabled).title_edit

\* C18: clear_files leaves the list and full_paths empty, the artwork unset
\* and the edit-metadata, omit and fade boxes unchecked, and leaves the
\* short-names setting, the conversion box and format and the save directory
\* as they were.
C18_ClearResets ==
    [][clear_files =>
        /\ items' = <<>>
        /\ full_paths' = <<>>
        /\ artwork_data' = "None"
        /\ ~edit_metadata_enabled'
        /\ ~omit_special_checkbox'
        /\ ~fade_last_checkbox'
        /\ shortnames_enabled' = shortnames_enabled
        /\ convert_checkbox' = convert_checkbox
        /\ convert_format_combo' = convert_format_combo
        /\ save_directory' = save_directory]_vars

\* C18 witness: the list has just been cleared, with short names on, the
\* conversion box checked and a save directory chosen.
C18_Witness ==
    /\ last_op = "clear"
    /\ items = <<>>
    /\ full_paths = <<>>
    /\ artwork_data = "None"
    /\ ~edit_metadata_enabled
    /\ shortnames_enabled
    /\ convert_checkbox
    /\ save_directory = SaveDir

\* C19 as claimed: the list widget and full_paths have the same length, and
\* every item's text is the "parent-directory/filename" of the path at its
\* place.
C19_ItemsMatchPaths ==
    /\ Len(items) = Len(full_paths)
    /\ \A i \in 1..Len(items) : items[i] = memo.item_text[full_paths[i]]

\* How many times a path is in a list.
Count(paths, f) == Cardinality({i \in 1..Len(paths) : paths[i] = f})

\* C20 as claimed: a drag inside the list leaves every path in full_paths as
\* many times as it was.
C20_ReorderPermutes ==
    [][(\E from, to \in 1..Len(items) : DropInternal(from, to)) =>
        \A f \in FileIds : Count(full_paths', f) = Count(full_paths, f)]_vars

\* C21 as claimed: the success dialog is shown for a sub-run and its output
\* path only after that sub-run's export to that path went through without an
\* error.
C21_SuccessOnlyAfterExport ==
    \A i \in Events("success") :
        \E j \in Succeeded("export") :
            /\ j < i
            /\ log[j].sub = log[i].sub
            /\ log[j].path = log[i].path

\* C22 as claimed: when the before and the after sub-run of a split request
\* have both been exported, they went to two different output paths, and the
\* file of the before sub-run is still at its path with the tracks of the
\* before sub-run in it.
C22_SubRunsKeepOwnOutputs ==
    \A i, j \in Succeeded("export") :
        (log[i].sub = "before" /\ log[j].sub = "after") =>
            /\ log[i].path # log[j].path
            /\ log[i].path \in DOMAIN written
            /\ Positions(written[log[i].path].audio) = Positions(frame.before_paths)

\* A request that took the omit branch is under way or just over.
SplitRequest == Merging /\ frame.sub # "std"

\* How many of the two sub-runs have a track.
NonEmptySubRuns == Cardinality({sub \in {"before", "after"} : SubRunPaths(sub) # <<>>})

\* C23 as claimed: once a split request is over, it has exported as many
\* output files, and reported as many successes, as it has non-empty
\* sub-runs; with no sub-run at all it ends with no output and the progress
\* bar at 0.
C23_OutputsEqualSubRuns ==
    (SplitRequest /\ Over) =>
        /\ Cardinality(Succeeded("export")) = NonEmptySubRuns
        /\ Cardinality(Events("success")) = NonEmptySubRuns
        /\ NonEmptySubRuns = 0 =>
            /\ pc = "done"
            /\ written = NoFile
            /\ progress_bar.value = 0

\* C23 as amended: in a split request nothing is decoded, exported or reported
\* for an empty sub-run, and a sub-run is exported and reported at most once.
\* A request that returns has called the export and the success report once
\* for every non-empty sub-run, every export has written a file unless the
\* encoder failed, and the progress bar is hidden at 0.  A request that a
\* decode error has ended has called the export for fewer sub-runs than are
\* non-empty.  With every track within the marker range the request returns at
\* once: nothing decoded, no output, no error, the progress bar hidden at 0.
C23_ExportPerNonEmptySubRun ==
    SplitRequest =>
        /\ \A i \in 1..Len(log) :
            \/ log[i].sub = "none"
            \/ log[i].sub \in {"before", "after"} /\ SubRunPaths(log[i].sub) # <<>>
        /\ \A i, j \in Events("export") : log[i].sub = log[j].sub => i = j
        /\ \A i, j \in Events("success") : log[i].sub = log[j].sub => i = j
        /\ pc = "done" =>
            /\ Cardinality(Events("export")) = NonEmptySubRuns
            /\ Cardinality(Events("success")) = NonEmptySubRuns
            /\ Failed("export") = {} => Cardinality(Succeeded("export")) = NonEmptySubRuns
            /\ progress_bar.value = 0
            /\ ~progress_bar.visible
        /\ pc \in {"raised", "aborted"} =>
            /\ Failed("decode") # {}
            /\ Cardinality(Events("export")) < NonEmptySubRuns
        /\ NonEmptySubRuns = 0 =>
            /\ pc = "done"
            /\ written = NoFile
            /\ \A i \in 1..Len(log) : log[i].sub = "none" /\ log[i].ok
            /\ progress_bar.value = 0
            /\ ~progress_bar.visible

\* C23 witness: a split request with the marker at the first place of a list
\* of three has returned with the after sub-run alone exported.
C23_Witness ==
    /\ pc = "done"
    /\ SplitRequest
    /\ Len(full_paths) = 3
    /\ frame.before_paths = <<>>
    /\ Len(frame.after_paths) = 2
    /\ Cardinality(Succeeded("export")) = 1
    /\ Cardinality(Events("success")) = 1
    /\ Cardinality(DOMAIN written) = 1

====
